---- MODULE Spec2Model ----
(***************************************************************************)
(* pod-graceful-drain: the pod labels-and-annotations protocol, the        *)
(* resource patcher, the admission handlers and the drain / evict          *)
(* reconcilers, as a state machine over one pod object on the API server.  *)
(*                                                                         *)
(* Time is counted in ticks, TicksPerSec ticks to the second, so that the  *)
(* second-precision RFC 3339 formatting used by the annotations is a real  *)
(* truncation.  Strings that carry structure are tagged records:           *)
(*   [time |-> t]   an RFC 3339 string denoting instant t (in ticks)       *)
(*   [raw  |-> s]   any other string                                       *)
(*   [json |-> v]   the JSON serialization of value v                      *)
(***************************************************************************)
EXTENDS Integers, Sequences, FiniteSets, TLC

(***************************************************************************)
(* Bounds of the model                                                     *)
(***************************************************************************)
TicksPerSec == 2
MaxRv == 3

Secs(n) == n * TicksPerSec
\* the clock of the system stops at MaxTime ticks
MaxTime == 1
\* the instants handed to the mutate functions on their own, in ticks
MaxMutateTime == 5

(***************************************************************************)
(* Generic map helpers (BTreeMap<String, String>)                          *)
(***************************************************************************)
EmptyMap == [k \in {} |-> ""]
MapInsert(m, k, v) == [x \in (DOMAIN m) \cup {k} |-> IF x = k THEN v ELSE m[x]]
MapRemove(m, k) == [x \in (DOMAIN m) \ {k} |-> m[x]]

(***************************************************************************)
(* chrono: formatting and parsing of timestamps                            *)
(***************************************************************************)
\* DateTime::to_rfc3339_opts(SecondsFormat::Secs, true): sub-second part dropped
to_rfc3339_opts(t) == [time |-> (t \div TicksPerSec) * TicksPerSec]

\* DateTime::parse_from_rfc3339: fractional seconds are accepted
parse_from_rfc3339(str) ==
    IF "time" \in DOMAIN str
    THEN [tag |-> "Ok", v |-> str.time]
    ELSE [tag |-> "Err", v |-> 0]

\* DateTime::with_nanosecond(0)
with_nanosecond_0(t) == (t \div TicksPerSec) * TicksPerSec

(***************************************************************************)
(* src/labels_and_annotations.rs                                           *)
(***************************************************************************)
DRAINING_LABEL_KEY == "pod-graceful-drain/draining"
DRAINING_LABEL_VALUE__DRAINING == "true"
DRAINING_LABEL_VALUE__EVICTING == "evicting"
DRAIN_TIMESTAMP_ANNOTATION_KEY == "pod-graceful-drain/drain-timestamp"
EVICT_AFTER_ANNOTATION_KEY == "pod-graceful-drain/evict-after"
ORIGINAL_LABELS_ANNOTATION_KEY == "pod-graceful-drain/original-labels"
DRAIN_CONTROLLER_ANNOTATION_KEY == "pod-graceful-drain/controller"
DELETE_OPTIONS_ANNOTATION_KEY == "pod-graceful-drain/delete-options"

\* enum DrainingLabelValue
Draining == "Draining"
Evicting == "Evicting"

\* Result<Option<T>, String>
OkNone == [tag |-> "None"]
OkSome(v) == [tag |-> "Some", v |-> v]
ErrRaw(raw) == [tag |-> "Err", raw |-> raw]

get_pod_draining_label_value(pod) ==
    IF DRAINING_LABEL_KEY \notin DOMAIN pod.labels THEN OkNone
    ELSE LET label == pod.labels[DRAINING_LABEL_KEY] IN
         IF label = DRAINING_LABEL_VALUE__DRAINING THEN OkSome(Draining)
         ELSE IF label = DRAINING_LABEL_VALUE__EVICTING THEN OkSome(Evicting)
         ELSE ErrRaw(label)

DrainingLabelStr(value) ==
    IF value = Draining THEN DRAINING_LABEL_VALUE__DRAINING
    ELSE DRAINING_LABEL_VALUE__EVICTING

\* returns the bool result and the pod as left by the call
try_set_pod_draining_label_value(pod, value) ==
    LET existing == get_pod_draining_label_value(pod) IN
    IF existing.tag = "Some" /\ existing.v = value
    THEN [ok |-> TRUE, pod |-> pod]
    ELSE IF existing.tag = "Some" /\ existing.v = Draining /\ value = Evicting
    THEN [ok |-> FALSE, pod |-> pod]
    ELSE [ok  |-> TRUE,
          pod |-> [pod EXCEPT !.labels =
                       MapInsert(pod.labels, DRAINING_LABEL_KEY, DrainingLabelStr(value))]]

get_pod_drain_timestamp(pod) ==
    IF DRAIN_TIMESTAMP_ANNOTATION_KEY \notin DOMAIN pod.annotations THEN OkNone
    ELSE LET str == pod.annotations[DRAIN_TIMESTAMP_ANNOTATION_KEY]
             result == parse_from_rfc3339(str) IN
         IF result.tag = "Ok" THEN OkSome(result.v) ELSE ErrRaw(str)

\* A setter that overwrites whatever is there (a plausible slip).
try_set_pod_drain_timestamp_Overwrite(pod, value) ==
    [ok  |-> TRUE,
     pod |-> [pod EXCEPT !.annotations =
                  MapInsert(pod.annotations, DRAIN_TIMESTAMP_ANNOTATION_KEY,
                            to_rfc3339_opts(value))]]

try_set_pod_drain_timestamp(pod, value) ==
    LET str == to_rfc3339_opts(value) IN
    IF DRAIN_TIMESTAMP_ANNOTATION_KEY \notin DOMAIN pod.annotations
    THEN [ok  |-> TRUE,
          pod |-> [pod EXCEPT !.annotations =
                       MapInsert(pod.annotations, DRAIN_TIMESTAMP_ANNOTATION_KEY, str)]]
    ELSE LET existing ==
                 parse_from_rfc3339(pod.annotations[DRAIN_TIMESTAMP_ANNOTATION_KEY]) IN
         IF existing.tag = "Err"
         THEN [ok  |-> TRUE,
               pod |-> [pod EXCEPT !.annotations =
                            MapInsert(pod.annotations, DRAIN_TIMESTAMP_ANNOTATION_KEY, str)]]
         ELSE [ok |-> FALSE, pod |-> pod]

get_pod_evict_after(pod) ==
    IF EVICT_AFTER_ANNOTATION_KEY \notin DOMAIN pod.annotations THEN OkNone
    ELSE LET str == pod.annotations[EVICT_AFTER_ANNOTATION_KEY]
             result == parse_from_rfc3339(str) IN
         IF result.tag = "Ok" THEN OkSome(result.v) ELSE ErrRaw(str)

\* value is OkNone or OkSome(t)
set_pod_evict_after(pod, value) ==
    IF value.tag = "Some"
    THEN [pod EXCEPT !.annotations =
              MapInsert(pod.annotations, EVICT_AFTER_ANNOTATION_KEY,
                        to_rfc3339_opts(value.v))]
    ELSE [pod EXCEPT !.annotations = MapRemove(pod.annotations, EVICT_AFTER_ANNOTATION_KEY)]

\* the annotation keys tried for the backup: the base key, then _1 .. _9
OriginalLabelsKeys ==
    <<"pod-graceful-drain/original-labels",
      "pod-graceful-drain/original-labels_1", "pod-graceful-drain/original-labels_2",
      "pod-graceful-drain/original-labels_3", "pod-graceful-drain/original-labels_4",
      "pod-graceful-drain/original-labels_5", "pod-graceful-drain/original-labels_6",
      "pod-graceful-drain/original-labels_7", "pod-graceful-drain/original-labels_8",
      "pod-graceful-drain/original-labels_9">>

\* A backup that always writes the base key (a plausible slip).
try_backup_pod_original_labels_Overwrite(pod) ==
    [ok  |-> TRUE,
     pod |-> [pod EXCEPT
                !.annotations = MapInsert(pod.annotations, OriginalLabelsKeys[1],
                                          [json |-> pod.labels]),
                !.labels = EmptyMap]]

try_backup_pod_original_labels(pod) ==
    LET hasDraining ==
            /\ DRAINING_LABEL_KEY \in DOMAIN pod.labels
            /\ pod.labels[DRAINING_LABEL_KEY] \in
                   {DRAINING_LABEL_VALUE__DRAINING, DRAINING_LABEL_VALUE__EVICTING}
        to_backup == IF hasDraining THEN MapRemove(pod.labels, DRAINING_LABEL_KEY)
                     ELSE pod.labels
        to_retain == IF hasDraining
                     THEN MapInsert(EmptyMap, DRAINING_LABEL_KEY,
                                    pod.labels[DRAINING_LABEL_KEY])
                     ELSE EmptyMap
        vacant == {i \in 1..Len(OriginalLabelsKeys) :
                       OriginalLabelsKeys[i] \notin DOMAIN pod.annotations}
    IN
    IF DOMAIN to_backup = {} THEN [ok |-> FALSE, pod |-> pod]
    ELSE IF vacant = {} THEN [ok |-> FALSE, pod |-> pod]
    ELSE LET i == CHOOSE j \in vacant : \A k \in vacant : j <= k IN
         [ok  |-> TRUE,
          pod |-> [pod EXCEPT
                     !.annotations = MapInsert(pod.annotations, OriginalLabelsKeys[i],
                                               [json |-> to_backup]),
                     !.labels = to_retain]]

\* loadbalancing is the LoadBalancingConfig: its instance id
am_i_pod_drain_controller(pod, loadbalancing) ==
    /\ DRAIN_CONTROLLER_ANNOTATION_KEY \in DOMAIN pod.annotations
    /\ pod.annotations[DRAIN_CONTROLLER_ANNOTATION_KEY] = [raw |-> loadbalancing]

set_pod_drain_controller(pod, loadbalancing) ==
    [pod EXCEPT !.annotations =
         MapInsert(pod.annotations, DRAIN_CONTROLLER_ANNOTATION_KEY, [raw |-> loadbalancing])]

get_pod_delete_options(pod) ==
    IF DELETE_OPTIONS_ANNOTATION_KEY \notin DOMAIN pod.annotations THEN OkNone
    ELSE LET json == pod.annotations[DELETE_OPTIONS_ANNOTATION_KEY] IN
         IF "json" \in DOMAIN json THEN OkSome(json.json) ELSE ErrRaw(json)

\* config is OkNone or OkSome(delete_options)
set_pod_delete_options(pod, config) ==
    IF config.tag = "Some"
    THEN [pod EXCEPT !.annotations =
              MapInsert(pod.annotations, DELETE_OPTIONS_ANNOTATION_KEY, [json |-> config.v])]
    ELSE [pod EXCEPT !.annotations = MapRemove(pod.annotations, DELETE_OPTIONS_ANNOTATION_KEY)]

(***************************************************************************)
(* src/patch/resource_patch_util.rs: MutationOutcome, and Option<&Pod>     *)
(***************************************************************************)
NoPod == [none |-> TRUE]
IsSome(p) == "none" \notin DOMAIN p

DesiredState(t) == [tag |-> "DesiredState", outcome |-> t]
RequirePatch(r) == [tag |-> "RequirePatch", pod |-> r]
MutateErr(e) == [tag |-> "Err", err |-> e]

(***************************************************************************)
(* src/patch/drain.rs                                                      *)
(***************************************************************************)
\* enum PatchToDrainOutcome / PatchToEvictOutcome
OutcomeGone == [o |-> "Gone"]
OutcomeDraining(t) == [o |-> "Draining", drain_timestamp |-> t]
OutcomeKeepDraining == [o |-> "Draining"]
OutcomeWaitingForPodDisruptionBudget == [o |-> "WaitingForPodDisruptionBudget"]

RECURSIVE ClearReplicaSetController(_)
ClearReplicaSetController(owner_refs) ==
    IF owner_refs = << >> THEN << >>
    ELSE LET owner_ref == Head(owner_refs) IN
         << IF owner_ref.apiVersion = "v1" /\ owner_ref.kind = "ReplicaSet"
            THEN [owner_ref EXCEPT !.controller = "none"]
            ELSE owner_ref >> \o ClearReplicaSetController(Tail(owner_refs))

remove_owner_reference(pod) ==
    [pod EXCEPT !.ownerReferences = ClearReplicaSetController(pod.ownerReferences)]

\* The check for a pod that is Draining already left out (a plausible slip).
mutate_to_drain_NoDesiredCheck(pod, now_, loadbalancing, preserve_delete_options) ==
    IF ~IsSome(pod) THEN DesiredState(OutcomeGone)
    ELSE
    LET p1 == try_backup_pod_original_labels(pod).pod
        p2 == try_set_pod_draining_label_value(p1, Draining).pod
        p3 == try_set_pod_drain_timestamp(p2, now_).pod
        p4 == set_pod_evict_after(p3, OkNone)
        p5 == set_pod_drain_controller(p4, loadbalancing)
        p6 == IF ~preserve_delete_options THEN set_pod_delete_options(p5, OkNone) ELSE p5
        p7 == remove_owner_reference(p6)
    IN RequirePatch(p7)

mutate_to_drain(pod, now_, loadbalancing, preserve_delete_options) ==
    IF ~IsSome(pod) THEN DesiredState(OutcomeGone)
    ELSE
    LET draining_state == get_pod_draining_label_value(pod)
        drain_timestamp == get_pod_drain_timestamp(pod)
    IN
    IF /\ draining_state.tag = "Some" /\ draining_state.v = Draining
       /\ drain_timestamp.tag = "Some"
    THEN DesiredState(OutcomeDraining(drain_timestamp.v))
    ELSE
    LET p1 == try_backup_pod_original_labels(pod).pod
        p2 == try_set_pod_draining_label_value(p1, Draining).pod
        p3 == try_set_pod_drain_timestamp(p2, now_).pod
        p4 == set_pod_evict_after(p3, OkNone)
        p5 == set_pod_drain_controller(p4, loadbalancing)
        p6 == IF ~preserve_delete_options THEN set_pod_delete_options(p5, OkNone) ELSE p5
        p7 == remove_owner_reference(p6)
    IN RequirePatch(p7)

(***************************************************************************)
(* src/patch/evict.rs                                                      *)
(***************************************************************************)
\* The early return for a pod that is Draining left out (a plausible slip).
mutate_to_evict_NoDrainingCheck(pod, timestamp, loadbalancing, delete_options) ==
    IF ~IsSome(pod) THEN DesiredState(OutcomeGone)
    ELSE
    LET draining_state == get_pod_draining_label_value(pod) IN
    IF draining_state.tag = "Some" /\ draining_state.v = Evicting
    THEN DesiredState(OutcomeWaitingForPodDisruptionBudget)
    ELSE
    LET p1 == try_set_pod_draining_label_value(pod, Evicting).pod
        p2 == set_pod_drain_controller(p1, loadbalancing)
        p3 == set_pod_evict_after(p2, OkSome(timestamp))
        p4 == set_pod_delete_options(p3, OkSome(delete_options))
    IN RequirePatch(p4)

\* The isolation of mutate_to_drain applied on the way to Evicting as well (a
\* plausible slip).
mutate_to_evict_Isolating(pod, timestamp, loadbalancing, delete_options) ==
    IF ~IsSome(pod) THEN DesiredState(OutcomeGone)
    ELSE
    LET draining_state == get_pod_draining_label_value(pod) IN
    IF draining_state.tag = "Some" /\ draining_state.v = Evicting
    THEN DesiredState(OutcomeWaitingForPodDisruptionBudget)
    ELSE IF draining_state.tag = "Some" /\ draining_state.v = Draining
    THEN DesiredState(OutcomeKeepDraining)
    ELSE
    LET p0 == try_backup_pod_original_labels(pod).pod
        p1 == try_set_pod_draining_label_value(p0, Evicting).pod
        p2 == set_pod_drain_controller(p1, loadbalancing)
        p3 == set_pod_evict_after(p2, OkSome(timestamp))
        p4 == set_pod_delete_options(p3, OkSome(delete_options))
    IN RequirePatch(p4)

mutate_to_evict(pod, timestamp, loadbalancing, delete_options) ==
    IF ~IsSome(pod) THEN DesiredState(OutcomeGone)
    ELSE
    LET draining_state == get_pod_draining_label_value(pod) IN
    IF draining_state.tag = "Some" /\ draining_state.v = Evicting
    THEN DesiredState(OutcomeWaitingForPodDisruptionBudget)
    ELSE IF draining_state.tag = "Some" /\ draining_state.v = Draining
    THEN DesiredState(OutcomeKeepDraining)
    ELSE
    LET p1 == try_set_pod_draining_label_value(pod, Evicting).pod
        p2 == set_pod_drain_controller(p1, loadbalancing)
        p3 == set_pod_evict_after(p2, OkSome(timestamp))
        p4 == set_pod_delete_options(p3, OkSome(delete_options))
    IN RequirePatch(p4)

(***************************************************************************)
(* src/patch/evict_later.rs                                                *)
(***************************************************************************)
\* The comparison with the existing evict-after left out (a plausible slip).
mutate_to_evict_later_Overwrite(pod, evict_after, loadbalancing) ==
    IF ~IsSome(pod) THEN DesiredState(OutcomeGone)
    ELSE
    LET draining_state == get_pod_draining_label_value(pod) IN
    IF draining_state.tag = "Some" /\ draining_state.v = Evicting
    THEN RequirePatch(set_pod_evict_after(
                          set_pod_drain_controller(pod, loadbalancing),
                          OkSome(evict_after)))
    ELSE IF draining_state.tag = "Some" /\ draining_state.v = Draining
    THEN DesiredState(OutcomeKeepDraining)
    ELSE IF draining_state.tag = "None"
    THEN MutateErr("Bug: pod is not waiting for evicting")
    ELSE MutateErr("PodDrainingStateIsInvalid")

\* The existing evict-after kept only when it is later, not when it is the
\* same (a plausible slip).
mutate_to_evict_later_StrictlyLater(pod, evict_after, loadbalancing) ==
    IF ~IsSome(pod) THEN DesiredState(OutcomeGone)
    ELSE
    LET trimmed == with_nanosecond_0(evict_after)
        draining_state == get_pod_draining_label_value(pod)
        existing_evict_after == get_pod_evict_after(pod)
    IN
    IF draining_state.tag = "Some" /\ draining_state.v = Evicting
    THEN IF existing_evict_after.tag = "Some" /\ existing_evict_after.v > trimmed
         THEN DesiredState(OutcomeWaitingForPodDisruptionBudget)
         ELSE RequirePatch(set_pod_evict_after(
                               set_pod_drain_controller(pod, loadbalancing),
                               OkSome(evict_after)))
    ELSE IF draining_state.tag = "Some" /\ draining_state.v = Draining
    THEN DesiredState(OutcomeKeepDraining)
    ELSE IF draining_state.tag = "None"
    THEN MutateErr("Bug: pod is not waiting for evicting")
    ELSE MutateErr("PodDrainingStateIsInvalid")

\* The comparison made against the untrimmed request (a plausible slip).
mutate_to_evict_later_Untrimmed(pod, evict_after, loadbalancing) ==
    IF ~IsSome(pod) THEN DesiredState(OutcomeGone)
    ELSE
    LET draining_state == get_pod_draining_label_value(pod)
        existing_evict_after == get_pod_evict_after(pod)
    IN
    IF draining_state.tag = "Some" /\ draining_state.v = Evicting
    THEN IF existing_evict_after.tag = "Some" /\ existing_evict_after.v >= evict_after
         THEN DesiredState(OutcomeWaitingForPodDisruptionBudget)
         ELSE RequirePatch(set_pod_evict_after(
                               set_pod_drain_controller(pod, loadbalancing),
                               OkSome(evict_after)))
    ELSE IF draining_state.tag = "Some" /\ draining_state.v = Draining
    THEN DesiredState(OutcomeKeepDraining)
    ELSE IF draining_state.tag = "None"
    THEN MutateErr("Bug: pod is not waiting for evicting")
    ELSE MutateErr("PodDrainingStateIsInvalid")

mutate_to_evict_later(pod, evict_after, loadbalancing) ==
    IF ~IsSome(pod) THEN DesiredState(OutcomeGone)
    ELSE
    LET trimmed == with_nanosecond_0(evict_after)
        draining_state == get_pod_draining_label_value(pod)
        existing_evict_after == get_pod_evict_after(pod)
    IN
    IF draining_state.tag = "Some" /\ draining_state.v = Evicting
    THEN IF existing_evict_after.tag = "Some" /\ existing_evict_after.v >= trimmed
         THEN DesiredState(OutcomeWaitingForPodDisruptionBudget)
         ELSE RequirePatch(set_pod_evict_after(
                               set_pod_drain_controller(pod, loadbalancing),
                               OkSome(evict_after)))
    ELSE IF draining_state.tag = "Some" /\ draining_state.v = Draining
    THEN DesiredState(OutcomeKeepDraining)
    ELSE IF draining_state.tag = "None"
    THEN MutateErr("Bug: pod is not waiting for evicting")
    ELSE MutateErr("PodDrainingStateIsInvalid")

(***************************************************************************)
(* src/patch/resource_patch_util.rs: the JSON patch sent to the API server *)
(***************************************************************************)
RECURSIVE SeqFromSet(_)
SeqFromSet(S) ==
    IF S = {} THEN << >>
    ELSE LET x == CHOOSE y \in S : TRUE IN <<x>> \o SeqFromSet(S \ {x})

\* json_patch::diff on one string map of the metadata (labels, annotations)
MapDiff(section, before, after) ==
    SeqFromSet(
        {[op |-> "remove", path |-> <<section, k>>, value |-> [raw |-> ""]] :
            k \in (DOMAIN before) \ (DOMAIN after)}
        \cup
        {[op |-> "add", path |-> <<section, k>>, value |-> [v |-> after[k]]] :
            k \in (DOMAIN after) \ (DOMAIN before)}
        \cup
        {[op |-> "replace", path |-> <<section, k>>, value |-> [v |-> after[k]]] :
            k \in {x \in (DOMAIN after) \cap (DOMAIN before) : after[x] # before[x]}})

\* json_patch::diff on the owner references: only `controller` ever changes
OwnerRefDiff(before, after) ==
    SeqFromSet(
        {[op |-> "remove", path |-> <<"ownerReferences", ToString(i)>>,
          value |-> [raw |-> ""]] :
            i \in {j \in 1..Len(before) :
                      j <= Len(after) /\ before[j].controller # after[j].controller}})

build_patch(before, after) ==
    MapDiff("labels", before.labels, after.labels)
    \o MapDiff("annotations", before.annotations, after.annotations)
    \o OwnerRefDiff(before.ownerReferences, after.ownerReferences)

TestOp(field, value) == [op |-> "test", path |-> <<field, "">>, value |-> [v |-> value]]

\* Only the uid is tested (a plausible slip: the resourceVersion test left out).
prepend_uid_and_resource_version_test_UidOnly(patch, resource) ==
    <<TestOp("uid", resource.uid)>> \o patch

prepend_uid_and_resource_version_test(patch, resource) ==
    <<TestOp("uid", resource.uid), TestOp("resourceVersion", resource.rv)>> \o patch

(***************************************************************************)
(* The API server applying a JSON patch (RFC 6902) to the stored pod: the  *)
(* operations in order, all or nothing.  A failed `test` is the 422 the    *)
(* patcher recognizes; any other failed operation is another error.        *)
(***************************************************************************)
ApplyOp(p, o) ==
    LET sec == o.path[1]
        k == o.path[2]
    IN
    IF o.op = "test"
    THEN IF (IF sec = "uid" THEN p.uid ELSE p.rv) = o.value.v
         THEN [st |-> "ok", pod |-> p]
         ELSE [st |-> "test_failed", pod |-> p]
    ELSE IF sec = "ownerReferences"
    THEN LET i == CHOOSE j \in 1..(Len(p.ownerReferences) + 1) :
                      ToString(j) = k \/ j = Len(p.ownerReferences) + 1 IN
         IF i <= Len(p.ownerReferences) /\ p.ownerReferences[i].controller # "none"
         THEN [st |-> "ok",
               pod |-> [p EXCEPT !.ownerReferences[i].controller = "none"]]
         ELSE [st |-> "invalid", pod |-> p]
    ELSE LET m == IF sec = "labels" THEN p.labels ELSE p.annotations
             put(m2) == IF sec = "labels" THEN [p EXCEPT !.labels = m2]
                        ELSE [p EXCEPT !.annotations = m2]
         IN
         IF o.op = "add" THEN [st |-> "ok", pod |-> put(MapInsert(m, k, o.value.v))]
         ELSE IF k \notin DOMAIN m THEN [st |-> "invalid", pod |-> p]
         ELSE IF o.op = "replace"
         THEN [st |-> "ok", pod |-> put(MapInsert(m, k, o.value.v))]
         ELSE [st |-> "ok", pod |-> put(MapRemove(m, k))]

RECURSIVE ApplyPatch(_, _)
ApplyPatch(p, patch) ==
    IF patch = << >> THEN [st |-> "ok", pod |-> p]
    ELSE LET r == ApplyOp(p, Head(patch)) IN
         IF r.st # "ok" THEN [st |-> r.st, pod |-> p]
         ELSE LET rest == ApplyPatch(r.pod, Tail(patch)) IN
              IF rest.st # "ok" THEN [st |-> rest.st, pod |-> p] ELSE rest

(***************************************************************************)
(* src/pod_state.rs and src/selector.rs                                    *)
(***************************************************************************)
is_pod_running(pod) ==
    /\ pod.phase \notin {"Pending", "Succeeded", "Failed"}
    /\ ~pod.deletionTimestamp

\* the pod has no readiness gates: "Ready" is the one required condition
is_pod_ready(pod) ==
    \A readiness_gate \in {"Ready"} :
        /\ readiness_gate \in DOMAIN pod.conditions
        /\ pod.conditions[readiness_gate] = "True"

matches_labels(pod, match_labels) ==
    \A key \in DOMAIN match_labels :
        key \in DOMAIN pod.labels /\ pod.labels[key] = match_labels[key]

\* The stores hold one Ingress whose backend is one Service with this selector.
ServiceSelector == "app" :> "test"

is_pod_exposed(pod) == matches_labels(pod, ServiceSelector)

(***************************************************************************)
(* Pods and instances the model draws from                                 *)
(***************************************************************************)
\* LoadBalancingConfig::get_id of the replicas
Instances == {"instance-id-1", "instance-id-2"}
\* the patch() calls that may run at once: one on each replica
CallIds == Instances

ReplicaSetOwner == [apiVersion |-> "v1", kind |-> "ReplicaSet", controller |-> "true"]

MakePod(uid, rv, labels, annotations) ==
    [uid |-> uid, rv |-> rv, labels |-> labels, annotations |-> annotations,
     ownerReferences |-> <<ReplicaSetOwner>>,
     deletionTimestamp |-> FALSE, phase |-> "Running",
     conditions |-> ("Ready" :> "True")]

AppLabelChoices == {EmptyMap, "app" :> "test"}
DrainingLabelChoices ==
    {EmptyMap,
     DRAINING_LABEL_KEY :> DRAINING_LABEL_VALUE__DRAINING,
     DRAINING_LABEL_KEY :> DRAINING_LABEL_VALUE__EVICTING,
     DRAINING_LABEL_KEY :> "asdf"}
\* a timestamp annotation: absent, malformed, whole seconds, with a fraction
TimestampChoices(key) ==
    {EmptyMap, key :> [raw |-> "asdf"], key :> [time |-> Secs(1)],
     key :> [time |-> Secs(1) + 1]}
ControllerChoices ==
    {EmptyMap} \cup {DRAIN_CONTROLLER_ANNOTATION_KEY :> [raw |-> i] : i \in Instances}
\* every original-labels key already taken, or none
OccupiedOriginalLabels ==
    [k \in {OriginalLabelsKeys[i] : i \in 1..Len(OriginalLabelsKeys)} |->
        [json |-> ("old" :> "label")]]
OriginalLabelsChoices == {EmptyMap, OccupiedOriginalLabels}
DefaultDeleteOptions == [gracePeriodSeconds |-> "none"]
SomeDeleteOptions == [gracePeriodSeconds |-> "30"]
DeleteOptionsChoices ==
    {EmptyMap, DELETE_OPTIONS_ANNOTATION_KEY :> [json |-> SomeDeleteOptions],
     DELETE_OPTIONS_ANNOTATION_KEY :> [raw |-> "asdf"]}

\* pods as a user or an earlier run of this program may have left them
InputPods ==
    {MakePod("uid-1", 1, l1 @@ l2, a1 @@ a2 @@ a3 @@ a4 @@ a5) :
        l1 \in DrainingLabelChoices, l2 \in AppLabelChoices,
        a1 \in TimestampChoices(DRAIN_TIMESTAMP_ANNOTATION_KEY),
        a2 \in TimestampChoices(EVICT_AFTER_ANNOTATION_KEY),
        a3 \in ControllerChoices, a4 \in OriginalLabelsChoices,
        a5 \in DeleteOptionsChoices}

\* owner references as other workload controllers write them
AppsReplicaSetOwner ==
    [apiVersion |-> "apps/v1", kind |-> "ReplicaSet", controller |-> "true"]
StatefulSetOwner ==
    [apiVersion |-> "apps/v1", kind |-> "StatefulSet", controller |-> "true"]
OwnerReferencesChoices ==
    {<< >>, <<ReplicaSetOwner>>, <<AppsReplicaSetOwner>>, <<StatefulSetOwner>>,
     <<[StatefulSetOwner EXCEPT !.controller = "none"], ReplicaSetOwner>>}
OwnerPods ==
    {[MakePod("uid-1", 1, l1 @@ l2, EmptyMap) EXCEPT !.ownerReferences = o] :
        l1 \in DrainingLabelChoices, l2 \in AppLabelChoices,
        o \in OwnerReferencesChoices}

(***************************************************************************)
(* src/pod_disruption_budget.rs: the PodDisruptionBudget decrementer       *)
(***************************************************************************)
MAX_DISRUPTED_POD_SIZE == 2000
\* retry_after_seconds while the disruption controller has not observed the
\* PodDisruptionBudget's generation
RETRY_AFTER_UNOBSERVED == 10

NoPdb == [none |-> TRUE]
IsSomePdb(pdb) == "none" \notin DOMAIN pdb

PdbNames == {"pdb-1", "pdb-2"}
PodNames == {"pod-1", "pod-2"}

NoCondition == [status |-> "none"]

\* metadata.namespace of every pod of the model
PodNamespace == "ns1"

\* a PodDisruptionBudget selecting app=test: metadata, the
\* unhealthyPodEvictionPolicy of its spec ("none" when absent), its status
MakePdb(name, rv, policy, observed_generation, disruptions_allowed, desired_healthy) ==
    [name |-> name, namespace |-> PodNamespace, rv |-> rv, generation |-> 1,
     selector |-> ("app" :> "test"),
     unhealthy_pod_eviction_policy |-> policy,
     observed_generation |-> observed_generation,
     disruptions_allowed |-> disruptions_allowed,
     current_healthy |-> Cardinality(PodNames),
     desired_healthy |-> desired_healthy,
     disrupted_pods |-> EmptyMap,
     condition |-> NoCondition]

\* matches_selector with a selector of matchLabels only
matches_selector(pod, selector) == matches_labels(pod, selector)

\* The namespaces not compared (a plausible slip).
get_pdb_AnyNamespace(store, pod) ==
    LET pdbs_ == {n \in PdbNames : /\ IsSomePdb(store[n])
                                   /\ matches_selector(pod, store[n].selector)}
    IN
    IF pdbs_ = {} THEN OkNone
    ELSE IF Cardinality(pdbs_) > 1 THEN [tag |-> "NotMyFault"]
    ELSE OkSome(store[CHOOSE n \in pdbs_ : TRUE])

\* the PodDisruptionBudgets of the store that are in the namespace of the
\* pod and select it
get_pdb(store, pod) ==
    LET pdbs_ == {n \in PdbNames : /\ IsSomePdb(store[n])
                                   /\ store[n].namespace = PodNamespace
                                   /\ matches_selector(pod, store[n].selector)}
    IN
    IF pdbs_ = {} THEN OkNone
    ELSE IF Cardinality(pdbs_) > 1 THEN [tag |-> "NotMyFault"]
    ELSE OkSome(store[CHOOSE n \in pdbs_ : TRUE])

\* The test desired_healthy > 0 left out (a plausible slip).
check_pod_disruption_policy_NoDesiredCheck(pod, pdb) ==
    IF is_pod_ready(pod) THEN [tag |-> "Ok", v |-> "EvictIfBudgetAllows"]
    ELSE IF pdb.unhealthy_pod_eviction_policy = "AlwaysAllow"
    THEN [tag |-> "Ok", v |-> "Evict"]
    ELSE IF pdb.unhealthy_pod_eviction_policy = "IfHealthyBudget"
    THEN IF pdb.current_healthy >= pdb.desired_healthy
         THEN [tag |-> "Ok", v |-> "Evict"]
         ELSE [tag |-> "Ok", v |-> "EvictIfBudgetAllows"]
    ELSE [tag |-> "NotMyFault"]

check_pod_disruption_policy(pod, pdb) ==
    IF is_pod_ready(pod) THEN [tag |-> "Ok", v |-> "EvictIfBudgetAllows"]
    ELSE IF pdb.unhealthy_pod_eviction_policy = "AlwaysAllow"
    THEN [tag |-> "Ok", v |-> "Evict"]
    ELSE IF pdb.unhealthy_pod_eviction_policy = "IfHealthyBudget"
    THEN IF pdb.current_healthy >= pdb.desired_healthy /\ pdb.desired_healthy > 0
         THEN [tag |-> "Ok", v |-> "Evict"]
         ELSE [tag |-> "Ok", v |-> "EvictIfBudgetAllows"]
    ELSE [tag |-> "NotMyFault"]

\* set_status_condition on the DisruptionAllowed condition: the transition
\* time moves only when the status changes
set_status_condition(condition, status, reason, now_) ==
    IF condition = NoCondition \/ condition.status # status
    THEN [status |-> status, reason |-> reason,
          last_transition_time |-> to_rfc3339_opts(now_)]
    ELSE [condition EXCEPT !.reason = reason]

\* The test written as disruptions_allowed >= 0 (a plausible slip).
update_disruption_allowed_condition_AtLeastZero(pdb, now_) ==
    IF pdb.disruptions_allowed >= 0
    THEN [pdb EXCEPT !.condition =
              set_status_condition(pdb.condition, "True", "SufficientPods", now_)]
    ELSE [pdb EXCEPT !.condition =
              set_status_condition(pdb.condition, "False", "InsufficientPods", now_)]

update_disruption_allowed_condition(pdb, now_) ==
    IF pdb.disruptions_allowed > 0
    THEN [pdb EXCEPT !.condition =
              set_status_condition(pdb.condition, "True", "SufficientPods", now_)]
    ELSE [pdb EXCEPT !.condition =
              set_status_condition(pdb.condition, "False", "InsufficientPods", now_)]

TooManyRequests(retry_after_seconds) ==
    [tag |-> "TooManyRequests", retry_after_seconds |-> retry_after_seconds]

\* The refusal at disruptions_allowed == 0 left out (a plausible slip).
check_and_decrease_impl_NoZeroCheck(pod_name, pdb, now_) ==
    IF pdb.observed_generation < pdb.generation
    THEN TooManyRequests(RETRY_AFTER_UNOBSERVED)
    ELSE IF pdb.disruptions_allowed < 0 THEN [tag |-> "NotMyFault"]
    ELSE
    LET decreased == [pdb EXCEPT !.disruptions_allowed = pdb.disruptions_allowed - 1]
        conditioned == IF decreased.disruptions_allowed = 0
                       THEN update_disruption_allowed_condition(decreased, now_)
                       ELSE decreased
    IN [tag |-> "Ok",
        pdb |-> [conditioned EXCEPT !.disrupted_pods =
                     MapInsert(pdb.disrupted_pods, pod_name, to_rfc3339_opts(now_))]]

\* The entry of a pod that is in disruptedPods already is kept, as with
\* entry().or_insert() (a plausible slip).
check_and_decrease_impl_KeepsEntry(pod_name, pdb, now_) ==
    IF pdb.observed_generation < pdb.generation
    THEN TooManyRequests(RETRY_AFTER_UNOBSERVED)
    ELSE IF pdb.disruptions_allowed < 0 THEN [tag |-> "NotMyFault"]
    ELSE IF Cardinality(DOMAIN pdb.disrupted_pods) > MAX_DISRUPTED_POD_SIZE
    THEN [tag |-> "NotMyFault"]
    ELSE IF pdb.disruptions_allowed = 0 THEN TooManyRequests(0)
    ELSE
    LET decreased == [pdb EXCEPT !.disruptions_allowed = pdb.disruptions_allowed - 1]
        conditioned == IF decreased.disruptions_allowed = 0
                       THEN update_disruption_allowed_condition(decreased, now_)
                       ELSE decreased
    IN [tag |-> "Ok",
        pdb |-> IF pod_name \in DOMAIN pdb.disrupted_pods THEN conditioned
                ELSE [conditioned EXCEPT !.disrupted_pods =
                         MapInsert(pdb.disrupted_pods, pod_name, to_rfc3339_opts(now_))]]

\* The refusal of a disruptedPods map that is too big left out (a plausible
\* slip).
check_and_decrease_impl_NoSizeCheck(pod_name, pdb, now_) ==
    IF pdb.observed_generation < pdb.generation
    THEN TooManyRequests(RETRY_AFTER_UNOBSERVED)
    ELSE IF pdb.disruptions_allowed < 0 THEN [tag |-> "NotMyFault"]
    ELSE IF pdb.disruptions_allowed = 0 THEN TooManyRequests(0)
    ELSE
    LET decreased == [pdb EXCEPT !.disruptions_allowed = pdb.disruptions_allowed - 1]
        conditioned == IF decreased.disruptions_allowed = 0
                       THEN update_disruption_allowed_condition(decreased, now_)
                       ELSE decreased
    IN [tag |-> "Ok",
        pdb |-> [conditioned EXCEPT !.disrupted_pods =
                     MapInsert(pdb.disrupted_pods, pod_name, to_rfc3339_opts(now_))]]

\* The entry of the pod in disruptedPods left out (a plausible slip).
check_and_decrease_impl_NoEntry(pod_name, pdb, now_) ==
    IF pdb.observed_generation < pdb.generation
    THEN TooManyRequests(RETRY_AFTER_UNOBSERVED)
    ELSE IF pdb.disruptions_allowed < 0 THEN [tag |-> "NotMyFault"]
    ELSE IF Cardinality(DOMAIN pdb.disrupted_pods) > MAX_DISRUPTED_POD_SIZE
    THEN [tag |-> "NotMyFault"]
    ELSE IF pdb.disruptions_allowed = 0 THEN TooManyRequests(0)
    ELSE
    LET decreased == [pdb EXCEPT !.disruptions_allowed = pdb.disruptions_allowed - 1]
    IN [tag |-> "Ok",
        pdb |-> IF decreased.disruptions_allowed = 0
                THEN update_disruption_allowed_condition(decreased, now_)
                ELSE decreased]

\* returns Ok with the PodDisruptionBudget as changed in place, or the error
check_and_decrease_impl(pod_name, pdb, now_) ==
    IF pdb.observed_generation < pdb.generation
    THEN TooManyRequests(RETRY_AFTER_UNOBSERVED)
    ELSE IF pdb.disruptions_allowed < 0 THEN [tag |-> "NotMyFault"]
    ELSE IF Cardinality(DOMAIN pdb.disrupted_pods) > MAX_DISRUPTED_POD_SIZE
    THEN [tag |-> "NotMyFault"]
    ELSE IF pdb.disruptions_allowed = 0 THEN TooManyRequests(0)
    ELSE
    LET decreased == [pdb EXCEPT !.disruptions_allowed = pdb.disruptions_allowed - 1]
        conditioned == IF decreased.disruptions_allowed = 0
                       THEN update_disruption_allowed_condition(decreased, now_)
                       ELSE decreased
    IN [tag |-> "Ok",
        pdb |-> [conditioned EXCEPT !.disrupted_pods =
                     MapInsert(pdb.disrupted_pods, pod_name, to_rfc3339_opts(now_))]]

\* The request sent without the snapshot's resourceVersion: an unconditional
\* replace.
replace_status_request_Unconditional(pdb) == [pdb EXCEPT !.rv = 0]

\* the body of api.replace_status: the store's object as changed, with the
\* resourceVersion the store had
replace_status_request(pdb) == pdb

\* decrease_pod_disruption_budget up to its request to the API server: it
\* returns Ok (with the reason no request is needed), an error, or the PUT
decrease_begin(pod, pod_name, store, now_) ==
    LET found == get_pdb(store, pod) IN
    IF found.tag = "NotMyFault" THEN [step |-> "err", err |-> "NotMyFault"]
    ELSE IF found.tag = "None" THEN [step |-> "ok", how |-> "no_pdb"]
    ELSE
    LET policy == check_pod_disruption_policy(pod, found.v) IN
    IF policy.tag = "NotMyFault" THEN [step |-> "err", err |-> "NotMyFault"]
    ELSE IF policy.v = "Evict" THEN [step |-> "ok", how |-> "policy"]
    ELSE
    LET checked == check_and_decrease_impl(pod_name, found.v, now_) IN
    IF checked.tag = "TooManyRequests"
    THEN [step |-> "too_many_requests",
          retry_after_seconds |-> checked.retry_after_seconds]
    ELSE IF checked.tag = "NotMyFault" THEN [step |-> "err", err |-> "NotMyFault"]
    ELSE [step |-> "put", request |-> replace_status_request(checked.pdb)]

VARIABLES
    now,      \* the wall clock (Utc::now), in ticks
    pod,      \* the pod object stored by the API server, NoPod once removed
    calls,    \* the patch() calls in flight: one ResourcePatchUtil each
    removed,  \* history: who removed the pod last
    hook,     \* the admission request the webhook is handling (SpecDelete)
    mu,       \* the mutate functions on their own (SpecMutate)
    pods,     \* the pods the evict reconcilers work on, by name (SpecPdb)
    pdbs,     \* the PodDisruptionBudgets the API server stores, by name
    stores,   \* each replica's reflector store of PodDisruptionBudgets
    evicts,   \* the evict reconciles in flight, by replica and pod
    faults    \* API requests answered with an error so far (SpecLive)
vars == <<now, pod, calls, removed, hook, mu, pods, pdbs, stores, evicts, faults>>

\* the evict machine is not part of the specification
NoEvicts ==
    /\ pods = << >>
    /\ pdbs = << >>
    /\ stores = << >>
    /\ evicts = << >>
    /\ faults = 0

(***************************************************************************)
(* Program constants (seconds)                                             *)
(***************************************************************************)
CONTROLLER_EXCLUSIVE_DURATION == 10
CONTROLLER_TIMEOUT_JITTER == 10
DEADLINE_OFFSET == 5
BACKOFF_MAX_TIMES == 5

\* Config::delete_after of the running instances, in seconds
DeleteAfterSecs == 2
delete_after == Secs(DeleteAfterSecs)

\* transient GET errors the API server answers the patch() calls in flight with
MaxGetErrors == 1

(***************************************************************************)
(* src/controllers/utils.rs: get_stable_jitter.  DefaultHasher and StdRng  *)
(* are an arbitrary but fixed function of the bytes written; the model     *)
(* takes a polynomial hash of the instance id and the pod's namespace and  *)
(* name, and random_range as the remainder in the range.                   *)
(***************************************************************************)
InstanceBytes(id) == IF id = "instance-id-1" THEN <<105, 49>> ELSE <<105, 50>>
PodNamespaceBytes == <<110, 115>>
PodNameBytes == <<112, 111, 100>>

RECURSIVE HashBytes(_, _)
HashBytes(h, bytes) ==
    IF bytes = << >> THEN h
    ELSE HashBytes((h * 31 + Head(bytes)) % 65536, Tail(bytes))

get_stable_jitter_impl(instance_id, pod_namespace, pod_name, range) ==
    HashBytes(HashBytes(HashBytes(7, InstanceBytes(instance_id)), pod_namespace), pod_name)
        % range

get_stable_jitter(p, loadbalancing, range) ==
    get_stable_jitter_impl(loadbalancing, PodNamespaceBytes, PodNameBytes, range)

(***************************************************************************)
(* Initial states of the system                                            *)
(***************************************************************************)
CallIdle == [pc |-> "idle"]
NotRemoved == [by |-> "none"]
HookIdle == [pc |-> "idle"]
MuIdle == [pc |-> "idle"]

Label(v) == DRAINING_LABEL_KEY :> v
\* a drain that started delete_after before the clock of the model does
DrainTimestampValid == DRAIN_TIMESTAMP_ANNOTATION_KEY :> [time |-> 0 - delete_after]
EvictAfterValid == EVICT_AFTER_ANNOTATION_KEY :> [time |-> 0]
EvictAfterRaw == EVICT_AFTER_ANNOTATION_KEY :> [raw |-> "asdf"]
ControllerOne == DRAIN_CONTROLLER_ANNOTATION_KEY :> [raw |-> "instance-id-1"]

\* the pods the patch protocol starts from: untouched, left Evicting or
\* Draining by an earlier request, or labeled by hand; the drain-timestamp
\* and evict-after absent, malformed or valid
InitPods ==
    {MakePod("uid-1", 1, "app" :> "test", a) : a \in {EmptyMap, DrainTimestampValid}}
    \cup
    {MakePod("uid-1", 1, Label("asdf") @@ ("app" :> "test"), EmptyMap)}
    \cup
    {MakePod("uid-1", 1, Label(DRAINING_LABEL_VALUE__EVICTING) @@ ("app" :> "test"),
             a @@ ControllerOne) :
        a \in {EvictAfterRaw, EvictAfterValid @@ DrainTimestampValid}}
    \cup
    {MakePod("uid-1", 1, Label(DRAINING_LABEL_VALUE__DRAINING),
             DrainTimestampValid @@ ControllerOne)}

Init ==
    /\ now = 0
    /\ pod \in InitPods
    /\ calls = [c \in CallIds |-> CallIdle]
    /\ removed = NotRemoved
    /\ hook = HookIdle
    /\ mu = MuIdle
    /\ NoEvicts

(***************************************************************************)
(* The clock, and writers other than this program                          *)
(***************************************************************************)
Tick ==
    /\ now < MaxTime
    /\ now' = now + 1
    /\ UNCHANGED <<pod, calls, removed, hook, mu, pods, pdbs, stores, evicts, faults>>

\* a patch() call is in flight with the stored pod as its snapshot
SnapshotHeld ==
    \E c \in CallIds :
        /\ calls[c].pc \in {"mutate", "patched", "refresh"}
        /\ calls[c].last_known = pod

\* some other client (the kubelet updating the status, say) writes the pod
\* that a patch() call in flight holds as its snapshot: the resourceVersion
\* moves on, labels and annotations stay
ExternalUpdate ==
    /\ IsSome(pod)
    /\ SnapshotHeld
    /\ pod.rv < MaxRv
    /\ pod' = [pod EXCEPT !.rv = pod.rv + 1]
    /\ UNCHANGED <<now, calls, removed, hook, mu, pods, pdbs, stores, evicts, faults>>

\* the pod that a patch() call in flight holds as its snapshot is deleted and
\* a pod of the same name is created in its place (as for a StatefulSet); its resourceVersion
\* is one no earlier object had, the last the model counts to
Replaced ==
    /\ IsSome(pod)
    /\ pod.uid = "uid-1"
    /\ pod.rv < MaxRv
    /\ SnapshotHeld
    /\ pod' = MakePod("uid-2", MaxRv, "app" :> "test", EmptyMap)
    /\ removed' = [by |-> "delete_request", lb |-> "none"]
    /\ UNCHANGED <<now, calls, hook, mu, pods, pdbs, stores, evicts, faults>>

(***************************************************************************)
(* src/patch/resource_patch_util.rs: patch() and ResourcePatchUtil         *)
(***************************************************************************)
\* ResourcePatchUtil::new, entering the loop of patch().  kind is the
\* patch_to_* function called, caller its PatchToDrainCaller, t the timestamp
\* handed to patch_to_evict_later.
NewCall(kind, caller, lb, res, t) ==
    [pc |-> "mutate", kind |-> kind, caller |-> caller, lb |-> lb, last_known |-> res,
     t |-> t, backoff |-> BACKOFF_MAX_TIMES]

\* the loop of patch() is about to call the closure: on entry or after a
\* refresh ("mutate"), or after a PATCH that was accepted or answered 404
\* ("patched")
InLoop(call) == call.pc \in {"mutate", "patched"}

\* what patch() returns to its caller
CallDone(call, result) ==
    [pc |-> "done", kind |-> call.kind, t |-> call.t, result |-> result]
CallFailed(call) == [pc |-> "failed", kind |-> call.kind]

\* the closure handed to patch() by patch_to_drain, patch_to_evict, patch_to_evict_later
CallMutate(call) ==
    IF call.kind = "drain"
    THEN mutate_to_drain(call.last_known, now, call.lb, call.caller = "Webhook")
    ELSE IF call.kind = "evict"
    THEN mutate_to_evict(call.last_known, now, call.lb, SomeDeleteOptions)
    ELSE mutate_to_evict_later(call.last_known, call.t, call.lb)

\* the request try_patch sends for new_state
CallPatch(call, new_state) ==
    prepend_uid_and_resource_version_test(build_patch(call.last_known, new_state),
                                          call.last_known)

\* try_patch gets as far as sending the PATCH for what the closure returned
SendsPatch(call) ==
    LET m == CallMutate(call) IN
    /\ m.tag = "RequirePatch"
    /\ IsSome(call.last_known)
    /\ build_patch(call.last_known, m.pod) # << >>

\* patch(): the mutate closure finds the desired state; the call returns it
PatchDesired(c) ==
    /\ InLoop(calls[c])
    /\ CallMutate(calls[c]).tag = "DesiredState"
    /\ calls' = [calls EXCEPT ![c] = CallDone(calls[c], CallMutate(calls[c]).outcome)]
    /\ UNCHANGED <<now, pod, removed, hook, mu, pods, pdbs, stores, evicts, faults>>

\* patch() returns an error: the closure fails, try_patch reports a Bug (no
\* last_known, an empty patch), or the API server answers the PATCH with an
\* error that is neither 404 nor transient, a conflict or a failed test
PatchFail(c) ==
    /\ InLoop(calls[c])
    /\ \/ CallMutate(calls[c]).tag = "Err"
       \/ CallMutate(calls[c]).tag = "RequirePatch"
    /\ calls' = [calls EXCEPT ![c] = CallFailed(calls[c])]
    /\ UNCHANGED <<now, pod, removed, hook, mu, pods, pdbs, stores, evicts, faults>>

\* try_patch: the PATCH is accepted; last_known becomes the returned object
PatchApplied(c) ==
    /\ InLoop(calls[c])
    /\ IsSome(pod)
    /\ pod.rv < MaxRv
    /\ SendsPatch(calls[c])
    /\ LET r == ApplyPatch(pod, CallPatch(calls[c], CallMutate(calls[c]).pod)) IN
       /\ r.st = "ok"
       /\ pod' = [r.pod EXCEPT !.rv = pod.rv + 1]
       /\ calls' = [calls EXCEPT ![c].pc = "patched", ![c].last_known = pod']
    /\ UNCHANGED <<now, removed, hook, mu, pods, pdbs, stores, evicts, faults>>

\* try_patch: the pod is gone, the PATCH is answered 404; last_known = None
PatchNotFound(c) ==
    /\ InLoop(calls[c])
    /\ ~IsSome(pod)
    /\ SendsPatch(calls[c])
    /\ calls' = [calls EXCEPT ![c].pc = "patched", ![c].last_known = NoPod]
    /\ UNCHANGED <<now, pod, removed, hook, mu, pods, pdbs, stores, evicts, faults>>

\* try_patch: a `test` operation fails on the stored pod, the PATCH is answered
\* 422 "the server rejected our request ..."; the patcher goes to refresh
PatchTestFailed(c) ==
    /\ InLoop(calls[c])
    /\ IsSome(pod)
    /\ SendsPatch(calls[c])
    /\ ApplyPatch(pod, CallPatch(calls[c], CallMutate(calls[c]).pod)).st = "test_failed"
    /\ calls' = [calls EXCEPT ![c].pc = "refresh"]
    /\ UNCHANGED <<now, pod, removed, hook, mu, pods, pdbs, stores, evicts, faults>>

\* try_patch: a transient error or 409 answers the PATCH, nothing is written
PatchTransient(c) ==
    /\ InLoop(calls[c])
    /\ SendsPatch(calls[c])
    /\ calls' = [calls EXCEPT ![c].pc = "refresh"]
    /\ UNCHANGED <<now, pod, removed, hook, mu, pods, pdbs, stores, evicts, faults>>

\* try_patch, 'refresh: GET answers with the pod, or 404 / None / another uid
RefreshGet(c) ==
    /\ calls[c].pc = "refresh"
    /\ calls' = [calls EXCEPT
           ![c].pc = "mutate",
           ![c].last_known =
               IF ~IsSome(pod) THEN NoPod
               ELSE IF pod.uid # calls[c].last_known.uid THEN NoPod
               ELSE pod]
    /\ UNCHANGED <<now, pod, removed, hook, mu, pods, pdbs, stores, evicts, faults>>

\* try_patch, 'refresh: GET fails with a transient error; sleep and retry while
\* the backoff lasts, else return the error
BackoffUsed(call) ==
    IF call.pc \in {"mutate", "patched", "refresh"}
    THEN BACKOFF_MAX_TIMES - call.backoff ELSE 0

RECURSIVE SumBackoffUsed(_)
SumBackoffUsed(ids) ==
    IF ids = {} THEN 0
    ELSE LET c == CHOOSE x \in ids : TRUE IN
         BackoffUsed(calls[c]) + SumBackoffUsed(ids \ {c})

RefreshTransient(c) ==
    /\ calls[c].pc = "refresh"
    /\ SumBackoffUsed(CallIds) < MaxGetErrors
    /\ calls' = IF calls[c].backoff > 0
                THEN [calls EXCEPT ![c].backoff = calls[c].backoff - 1]
                ELSE [calls EXCEPT ![c] = CallFailed(calls[c])]
    /\ UNCHANGED <<now, pod, removed, hook, mu, pods, pdbs, stores, evicts, faults>>

\* try_patch, 'refresh: GET fails with any other error, which is returned
RefreshFail(c) ==
    /\ calls[c].pc = "refresh"
    /\ calls' = [calls EXCEPT ![c] = CallFailed(calls[c])]
    /\ UNCHANGED <<now, pod, removed, hook, mu, pods, pdbs, stores, evicts, faults>>

\* the caller has its result; the ResourcePatchUtil is dropped
CallReturn(c) ==
    /\ calls[c].pc \in {"done", "failed"}
    /\ calls' = [calls EXCEPT ![c] = CallIdle]
    /\ UNCHANGED <<now, pod, removed, hook, mu, pods, pdbs, stores, evicts, faults>>

(***************************************************************************)
(* The callers of the patcher                                              *)
(***************************************************************************)
\* src/webhooks/handle_delete.rs, handle_delete up to its patch_to_drain call:
\* the pod of the request is running, labeled neither Draining nor invalid,
\* exposed and ready
DeleteWouldPatch(p) ==
    /\ is_pod_running(p)
    /\ \/ get_pod_draining_label_value(p) = OkNone
       \/ get_pod_draining_label_value(p) = OkSome(Evicting)
    /\ is_pod_exposed(p)
    /\ is_pod_ready(p)

\* a DELETE admission request for the pod reaches the patch_to_drain call of
\* handle_delete on the instance lb
StartDeleteWebhookPatch(lb) ==
    LET c == lb IN
    /\ calls[c] = CallIdle
    /\ IsSome(pod)
    /\ DeleteWouldPatch(pod)
    /\ calls' = [calls EXCEPT ![c] = NewCall("drain", "Webhook", lb, pod, 0)]
    /\ UNCHANGED <<now, pod, removed, hook, mu, pods, pdbs, stores, evicts, faults>>

\* src/patch/evict.rs, patch_to_evict: called on the instance lb with the pod
StartPatchToEvict(lb) ==
    LET c == lb IN
    /\ calls[c] = CallIdle
    /\ IsSome(pod)
    /\ calls' = [calls EXCEPT ![c] = NewCall("evict", "Webhook", lb, pod, 0)]
    /\ UNCHANGED <<now, pod, removed, hook, mu, pods, pdbs, stores, evicts, faults>>

\* what decrease_pod_disruption_budget answers, as far as reconcile tells it
\* apart: Ok, or TooManyRequests with its retry_after_seconds
PdbAnswers == {[tag |-> "Ok", retry_after_seconds |-> 0],
               [tag |-> "TooManyRequests", retry_after_seconds |-> 0]}

Max(a, b) == IF a >= b THEN a ELSE b

\* A reconcile that leaves the exclusive duration and the jitter out for
\* another controller's pod (a plausible slip).
EvictBackoff_NoExclusive(p, lb) ==
    LET evict_after == get_pod_evict_after(p) IN
    /\ evict_after.tag = "Some"
    /\ evict_after.v - now >= 0

\* src/controllers/evict.rs, reconcile: it requeues while evict_after - now,
\* with the exclusive duration and the jitter added for another controller's
\* pod, is not negative
EvictBackoff(p, lb) ==
    LET evict_after == get_pod_evict_after(p) IN
    /\ evict_after.tag = "Some"
    /\ (IF am_i_pod_drain_controller(p, lb) THEN evict_after.v
        ELSE evict_after.v + Secs(CONTROLLER_EXCLUSIVE_DURATION)
             + get_stable_jitter(p, lb, Secs(CONTROLLER_TIMEOUT_JITTER))) - now >= 0

\* A reconcile that patches to Draining whatever the decrementer answered.
StartEvictReconcile_IgnoresPdb(lb) ==
    LET c == lb IN
    /\ calls[c] = CallIdle
    /\ IsSome(pod)
    /\ ~pod.deletionTimestamp
    /\ get_pod_draining_label_value(pod) = OkSome(Evicting)
    /\ ~EvictBackoff(pod, lb)
    /\ \E answer \in PdbAnswers :
          calls' = [calls EXCEPT ![c] =
              [pdb |-> answer.tag] @@ NewCall("drain", "Controller", lb, pod, 0)]
    /\ UNCHANGED <<now, pod, removed, hook, mu, pods, pdbs, stores, evicts, faults>>

\* src/controllers/evict.rs, reconcile, up to the patch call it makes; pdb is
\* what decrease_pod_disruption_budget answered in this reconcile
StartEvictReconcile(lb) ==
    LET c == lb IN
    /\ calls[c] = CallIdle
    /\ IsSome(pod)
    /\ ~pod.deletionTimestamp
    /\ get_pod_draining_label_value(pod) = OkSome(Evicting)
    /\ ~EvictBackoff(pod, lb)
    /\ \E answer \in PdbAnswers :
          calls' = [calls EXCEPT ![c] =
              [pdb |-> answer.tag] @@
              IF answer.tag = "Ok"
              THEN NewCall("drain", "Controller", lb, pod, 0)
              ELSE NewCall("evict_later", "Controller", lb, pod,
                           now + Secs(Max(answer.retry_after_seconds, 1)))]
    /\ UNCHANGED <<now, pod, removed, hook, mu, pods, pdbs, stores, evicts, faults>>

\* A reconciler that leaves the exclusive duration out for another
\* controller's pod.
DrainNotBefore_NoExclusive(p, lb) ==
    LET drain_until == get_pod_drain_timestamp(p).v + delete_after IN
    IF am_i_pod_drain_controller(p, lb) THEN drain_until
    ELSE drain_until + get_stable_jitter(p, lb, Secs(CONTROLLER_TIMEOUT_JITTER))

\* A reconciler that leaves another controller's pod alone for a day.
DrainNotBefore_OwnerOnly(p, lb) ==
    LET drain_until == get_pod_drain_timestamp(p).v + delete_after IN
    IF am_i_pod_drain_controller(p, lb) THEN drain_until
    ELSE drain_until + Secs(86400)

\* src/controllers/drain.rs, reconcile: the instant up to which it requeues
DrainNotBefore(p, lb) ==
    LET drain_until == get_pod_drain_timestamp(p).v + delete_after IN
    IF am_i_pod_drain_controller(p, lb) THEN drain_until
    ELSE drain_until + Secs(CONTROLLER_EXCLUSIVE_DURATION)
         + get_stable_jitter(p, lb, Secs(CONTROLLER_TIMEOUT_JITTER))

\* src/controllers/drain.rs, reconcile on the pod p, as seen at `now` by lb
DrainWouldDelete(p, lb) ==
    /\ ~p.deletionTimestamp
    /\ get_pod_draining_label_value(p) = OkSome(Draining)
    /\ get_pod_drain_timestamp(p).tag = "Some"
    /\ DrainNotBefore(p, lb) - now < 0

\* reconcile: the DeleteOptions of the annotation, the default ones when it
\* is absent or does not parse
DrainDeleteOptions(p) ==
    LET delete_options == get_pod_delete_options(p) IN
    IF delete_options.tag = "Some" THEN delete_options.v ELSE DefaultDeleteOptions

\* reconcile and delete_pod: the DELETE carries the uid and resourceVersion of
\* the pod reconciled as preconditions, and removes the pod the server stores
DrainReconcile(lb) ==
    /\ IsSome(pod)
    /\ DrainWouldDelete(pod, lb)
    /\ pod' = NoPod
    /\ removed' = [by |-> "drain_reconciler", lb |-> lb,
                   owner |-> am_i_pod_drain_controller(pod, lb),
                   delete_options |-> DrainDeleteOptions(pod)]
    /\ UNCHANGED <<now, calls, hook, mu, pods, pdbs, stores, evicts, faults>>

Patcher(c) ==
    \/ PatchDesired(c)
    \/ PatchFail(c)
    \/ PatchApplied(c)
    \/ PatchNotFound(c)
    \/ PatchTestFailed(c)
    \/ PatchTransient(c)
    \/ RefreshGet(c)
    \/ RefreshTransient(c)
    \/ RefreshFail(c)
    \/ CallReturn(c)

Next ==
    \/ Tick
    \/ ExternalUpdate
    \/ Replaced
    \/ \E lb \in Instances :
          \/ StartDeleteWebhookPatch(lb)
          \/ StartPatchToEvict(lb)
          \/ StartEvictReconcile(lb)
    \/ \E c \in CallIds : Patcher(c)
    \/ \E lb \in Instances : DrainReconcile(lb)

Spec == Init /\ [][Next]_vars

(***************************************************************************)
(* The delete webhook in time: src/webhooks/handle_common.rs,              *)
(* src/webhooks/self_recognize.rs and src/webhooks/handle_delete.rs        *)
(***************************************************************************)
\* the clock of the webhook's system stops after MaxDeleteSecs seconds
MaxDeleteSecs == 4
MaxDeleteTime == Secs(MaxDeleteSecs)
\* the longest admission timeout a request comes with, in seconds
MaxTimeoutSecs == 8
\* the `timeout` of handle_delete: one whose deadline comes before
\* drain_timestamp + delete_after, and one whose deadline comes after it
TimeoutChoices == {Secs(DEADLINE_OFFSET + 1), Secs(MaxTimeoutSecs)}

\* Option<T>
None == [tag |-> "None"]
Some(v) == [tag |-> "Some", v |-> v]

\* DownwardAPI::from_env.  instance-id-1 runs in the cluster as the service
\* account pgd-sa of the namespace pgd-ns; instance-id-2 runs without
\* POD_SERVICE_ACCOUNT_NAME in its environment.
DownwardApiOf(lb) ==
    [pod_namespace |-> Some("pgd-ns"),
     pod_service_account_name |-> IF lb = "instance-id-1" THEN Some("pgd-sa") ELSE None]

\* format!("system:serviceaccount:{namespace}:{service_account_name}"): a
\* string is the sequence of its parts between the colons that format! puts
ServiceAccountUsername(namespace, service_account_name) ==
    <<"system", "serviceaccount", namespace, service_account_name>>
\* format!("system:serviceaccounts:{namespace}")
NamespaceGroup(namespace) == <<"system", "serviceaccounts", namespace>>

\* str::starts_with("system:serviceaccount:")
StartsWithServiceAccount(username) ==
    /\ Len(username) > 2
    /\ SubSeq(username, 1, 2) = <<"system", "serviceaccount">>

is_my_serviceaccount(downward_api, user_info) ==
    IF downward_api.pod_service_account_name.tag = "None" THEN FALSE
    ELSE IF downward_api.pod_namespace.tag = "None" THEN FALSE
    ELSE IF user_info.username.tag = "None" THEN FALSE
    ELSE IF user_info.groups.tag = "None" THEN FALSE
    ELSE
    LET service_account_name == downward_api.pod_service_account_name.v
        namespace == downward_api.pod_namespace.v
        username == user_info.username.v
        groups == user_info.groups.v
    IN
    IF \/ ~StartsWithServiceAccount(username)
       \/ username # ServiceAccountUsername(namespace, service_account_name)
    THEN FALSE
    ELSE IF ~(\E group \in groups : group = <<"system", "serviceaccounts">>) THEN FALSE
    ELSE IF ~(\E group \in groups : group = <<"system", "authenticated">>) THEN FALSE
    ELSE IF ~(\E group \in groups : group = NamespaceGroup(namespace)) THEN FALSE
    ELSE TRUE

\* the groups the API server gives a service account of the namespace pgd-ns
ServiceAccountGroups ==
    {<<"system", "serviceaccounts">>, <<"system", "authenticated">>,
     NamespaceGroup("pgd-ns")}

\* UserInfo of the requests: this program's service account, the same
\* username without the namespace group, another service account of the
\* namespace, a human administrator, and a request without user-info
UserInfos ==
    {[username |-> Some(ServiceAccountUsername("pgd-ns", "pgd-sa")),
      groups |-> Some(ServiceAccountGroups)],
     [username |-> Some(ServiceAccountUsername("pgd-ns", "pgd-sa")),
      groups |-> Some(ServiceAccountGroups \ {NamespaceGroup("pgd-ns")})],
     [username |-> Some(ServiceAccountUsername("pgd-ns", "default")),
      groups |-> Some(ServiceAccountGroups)],
     [username |-> Some(<<"kubernetes-admin">>),
      groups |-> Some({<<"system", "masters">>, <<"system", "authenticated">>})],
     [username |-> None, groups |-> None]}

\* AdmissionRequest<Pod> of a DELETE, or AdmissionRequest<Eviction>, as far as
\* the handlers read it; old_object is the pod stored when the request came
AdmissionRequests(old_pod) ==
    [user_info : UserInfos, dry_run : BOOLEAN, old_object : {None, Some(old_pod)}]

\* AdmissionReview.request
Reviews(old_pod) == {None} \cup {Some(r) : r \in AdmissionRequests(old_pod)}

\* enum InterceptResult, and the Err of Result<InterceptResult>
InterceptAllow == [tag |-> "Allow"]
InterceptDeny == [tag |-> "Deny"]
InterceptPatch(allowed) == [tag |-> "Patch", allowed |-> allowed]
InterceptErr == [tag |-> "Err"]

\* enum HandlerResult: an AdmissionReview with its response, or a Status
ReviewResponse(allowed) == [kind |-> "review", allowed |-> allowed]
StatusResponse(code) == [kind |-> "status", code |-> code]

\* handle_common up to its call of `handle`: the response it returns itself
\* with the reason it reports, or the step to `handle`
handle_common_DryRunFirst(downward_api, review) ==
    IF review.tag = "None"
    THEN [step |-> "respond", response |-> StatusResponse(400), report |-> "BadRequest"]
    ELSE IF review.v.dry_run
    THEN [step |-> "respond", response |-> ReviewResponse(TRUE), report |-> "DryRun"]
    ELSE IF is_my_serviceaccount(downward_api, review.v.user_info)
    THEN [step |-> "respond", response |-> ReviewResponse(TRUE),
          report |-> "Reentry-Controller"]
    ELSE [step |-> "handle"]

handle_common(downward_api, review) ==
    IF review.tag = "None"
    THEN [step |-> "respond", response |-> StatusResponse(400), report |-> "BadRequest"]
    ELSE IF is_my_serviceaccount(downward_api, review.v.user_info)
    THEN [step |-> "respond", response |-> ReviewResponse(TRUE),
          report |-> "Reentry-Controller"]
    ELSE IF review.v.dry_run
    THEN [step |-> "respond", response |-> ReviewResponse(TRUE), report |-> "DryRun"]
    ELSE [step |-> "handle"]

\* handle_common: `match result` on what `handle` returned
HandlerResultOf(result) ==
    IF result.tag = "Allow" THEN ReviewResponse(TRUE)
    ELSE IF result.tag = "Deny" THEN ReviewResponse(FALSE)
    ELSE IF result.tag = "Patch" THEN ReviewResponse(result.allowed)
    ELSE StatusResponse(500)

\* what a `handle` closure may return, as far as handle_common tells
InterceptResults == {InterceptAllow, InterceptDeny, InterceptPatch(TRUE), InterceptErr}

\* handle_delete: deadline
Deadline(started_at, timeout) == started_at + timeout - Secs(DEADLINE_OFFSET)

HandleReturn(result, report) == [step |-> "return", result |-> result, report |-> report]

\* A handler that denies the deletion of a pod whose label it cannot read.
handle_delete_DenyInvalidLabel(request, now_) ==
    IF request.old_object.tag = "None" THEN HandleReturn(InterceptErr, "Error")
    ELSE
    LET p == request.old_object.v
        draining_label_value == get_pod_draining_label_value(p)
    IN
    IF ~is_pod_running(p) THEN HandleReturn(InterceptAllow, "AlreadyTerminated")
    ELSE IF \/ draining_label_value = OkNone
            \/ draining_label_value = OkSome(Evicting)
    THEN IF ~is_pod_exposed(p) THEN HandleReturn(InterceptAllow, "NotExposed")
         ELSE IF ~is_pod_ready(p) THEN HandleReturn(InterceptAllow, "NotReady")
         ELSE [step |-> "patch_to_drain"]
    ELSE IF draining_label_value = OkSome(Draining)
    THEN LET drain_timestamp == get_pod_drain_timestamp(p) IN
         IF drain_timestamp.tag = "Some"
         THEN LET drain_until == drain_timestamp.v + delete_after IN
              IF now_ < drain_until
              THEN [step |-> "stall", drain_until |-> drain_until, report |-> "Draining"]
              ELSE HandleReturn(InterceptAllow, "Expired")
         ELSE HandleReturn(InterceptAllow, "Manual")
    ELSE HandleReturn(InterceptDeny, "Manual")

\* A handler that does not look at the Ready condition (a plausible slip).
handle_delete_PatchNotReady(request, now_) ==
    IF request.old_object.tag = "None" THEN HandleReturn(InterceptErr, "Error")
    ELSE
    LET p == request.old_object.v
        draining_label_value == get_pod_draining_label_value(p)
    IN
    IF ~is_pod_running(p) THEN HandleReturn(InterceptAllow, "AlreadyTerminated")
    ELSE IF \/ draining_label_value = OkNone
            \/ draining_label_value = OkSome(Evicting)
    THEN IF ~is_pod_exposed(p) THEN HandleReturn(InterceptAllow, "NotExposed")
         ELSE [step |-> "patch_to_drain"]
    ELSE IF draining_label_value = OkSome(Draining)
    THEN LET drain_timestamp == get_pod_drain_timestamp(p) IN
         IF drain_timestamp.tag = "Some"
         THEN LET drain_until == drain_timestamp.v + delete_after IN
              IF now_ < drain_until
              THEN [step |-> "stall", drain_until |-> drain_until, report |-> "Draining"]
              ELSE HandleReturn(InterceptAllow, "Expired")
         ELSE HandleReturn(InterceptAllow, "Manual")
    ELSE HandleReturn(InterceptAllow, "Manual")

\* handle_delete up to its first patch_to_drain or drain_until_or_deadline
\* call, or to its return
handle_delete(request, now_) ==
    IF request.old_object.tag = "None" THEN HandleReturn(InterceptErr, "Error")
    ELSE
    LET p == request.old_object.v
        draining_label_value == get_pod_draining_label_value(p)
    IN
    IF ~is_pod_running(p) THEN HandleReturn(InterceptAllow, "AlreadyTerminated")
    ELSE IF \/ draining_label_value = OkNone
            \/ draining_label_value = OkSome(Evicting)
    THEN IF ~is_pod_exposed(p) THEN HandleReturn(InterceptAllow, "NotExposed")
         ELSE IF ~is_pod_ready(p) THEN HandleReturn(InterceptAllow, "NotReady")
         ELSE [step |-> "patch_to_drain"]
    ELSE IF draining_label_value = OkSome(Draining)
    THEN LET drain_timestamp == get_pod_drain_timestamp(p) IN
         IF drain_timestamp.tag = "Some"
         THEN LET drain_until == drain_timestamp.v + delete_after IN
              IF now_ < drain_until
              THEN [step |-> "stall", drain_until |-> drain_until, report |-> "Draining"]
              ELSE HandleReturn(InterceptAllow, "Expired")
         ELSE HandleReturn(InterceptAllow, "Manual")
    ELSE HandleReturn(InterceptAllow, "Manual")

\* handle_delete: `match outcome` after patch_to_drain returned Ok(outcome)
handle_delete_outcome(outcome) ==
    IF outcome.o = "Gone" THEN HandleReturn(InterceptAllow, "Gone")
    ELSE [step |-> "stall", drain_until |-> outcome.drain_timestamp + delete_after,
          report |-> "Drain"]

\* Duration::to_std().unwrap_or_default(): a negative duration becomes zero
to_std_or_default(d) == IF d < 0 THEN 0 ELSE d

\* A stall that allows at once when the deadline comes first.
drain_until_or_deadline_NoDeadlineSleep(now_, drain_until, deadline) ==
    IF drain_until < deadline
    THEN [wake |-> now_ + to_std_or_default(drain_until - now_), report |-> "Drained"]
    ELSE [wake |-> now_, report |-> "Timeout"]

\* drain_until_or_deadline: the instant its sleep ends and what it reports then
drain_until_or_deadline(now_, drain_until, deadline) ==
    IF drain_until < deadline
    THEN [wake |-> now_ + to_std_or_default(drain_until - now_), report |-> "Drained"]
    ELSE [wake |-> now_ + to_std_or_default(deadline - now_), report |-> "Timeout"]

\* the pods a request may find: exposed and ready, left Evicting, not
\* exposed, not ready, terminated, Draining (draining now, drained, drained
\* long ago under no controller, with an unreadable timestamp or none), or
\* with a label that is no draining state
DrainTimestampNow == DRAIN_TIMESTAMP_ANNOTATION_KEY :> [time |-> 0]
DrainTimestampOld ==
    DRAIN_TIMESTAMP_ANNOTATION_KEY :>
        [time |-> 0 - delete_after - Secs(CONTROLLER_EXCLUSIVE_DURATION)]
DrainTimestampRaw == DRAIN_TIMESTAMP_ANNOTATION_KEY :> [raw |-> "asdf"]

DeletePods ==
    {MakePod("uid-1", 1, "app" :> "test", EmptyMap),
     MakePod("uid-1", 1, Label(DRAINING_LABEL_VALUE__EVICTING) @@ ("app" :> "test"),
             EvictAfterValid @@ ControllerOne),
     MakePod("uid-1", 1, EmptyMap, EmptyMap),
     [MakePod("uid-1", 1, "app" :> "test", EmptyMap) EXCEPT
         !.conditions = "Ready" :> "False"],
     [MakePod("uid-1", 1, "app" :> "test", EmptyMap) EXCEPT !.phase = "Succeeded"],
     MakePod("uid-1", 1, Label("asdf") @@ ("app" :> "test"), EmptyMap)}
    \cup
    {MakePod("uid-1", 1, Label(DRAINING_LABEL_VALUE__DRAINING), a) :
        a \in {DrainTimestampNow @@ ControllerOne, DrainTimestampValid @@ ControllerOne,
               DrainTimestampOld, DrainTimestampRaw @@ ControllerOne, ControllerOne}}

DeleteInit ==
    /\ now = 0
    /\ pod \in DeletePods
    /\ calls = [c \in CallIds |-> CallIdle]
    /\ removed = NotRemoved
    /\ hook = HookIdle
    /\ mu = MuIdle
    /\ NoEvicts

\* the request as the instance lb receives it on the endpoint, before
\* handle_common runs
HookReceived(lb, endpoint, review, timeout) ==
    [pc |-> "received", lb |-> lb, endpoint |-> endpoint, review |-> review,
     timeout |-> timeout, started_at |-> now, deadline |-> Deadline(now, timeout),
     handle_called |-> FALSE, patched |-> FALSE, drain_until |-> 0, wake |-> 0,
     report |-> "none", response |-> None, responded_at |-> 0, deleted_at |-> 0]

\* the handler returns: the response leaves now
HookRespond(h, response, report) ==
    [h EXCEPT !.pc = "responded", !.response = response, !.report = report,
              !.responded_at = now]

\* the handler enters drain_until_or_deadline and sleeps
HookStall(h, drain_until, report) ==
    [h EXCEPT !.pc = "stalling", !.drain_until = drain_until, !.report = report,
              !.wake = drain_until_or_deadline(now, drain_until, h.deadline).wake]

\* time passes, but not past the instant a sleeping handler wakes at
DeleteTick ==
    /\ now < MaxDeleteTime
    /\ hook.pc = "stalling" => now < hook.wake
    /\ now' = now + 1
    /\ UNCHANGED <<pod, calls, removed, hook, mu, pods, pdbs, stores, evicts, faults>>

\* a DELETE Pod admission review for the stored pod reaches the instance lb:
\* handle_common, and handle_delete as far as it runs without waiting
DeleteRequest(lb) ==
    /\ hook = HookIdle
    /\ IsSome(pod)
    /\ calls[lb] = CallIdle
    /\ now < TicksPerSec
    /\ \E review \in Reviews(pod), timeout \in TimeoutChoices :
          LET h == HookReceived(lb, "delete", review, timeout)
              common == handle_common(DownwardApiOf(lb), review)
              called == [h EXCEPT !.handle_called = TRUE]
              step == handle_delete(review.v, now)
          IN
          IF common.step = "respond"
          THEN /\ hook' = HookRespond(h, common.response, common.report)
               /\ calls' = calls
          ELSE IF step.step = "return"
          THEN /\ hook' = HookRespond(called, HandlerResultOf(step.result), step.report)
               /\ calls' = calls
          ELSE IF step.step = "stall"
          THEN /\ hook' = HookStall(called, step.drain_until, step.report)
               /\ calls' = calls
          ELSE /\ hook' = [called EXCEPT !.pc = "patching"]
               /\ calls' = [calls EXCEPT ![lb] =
                               NewCall("drain", "Webhook", lb, review.v.old_object.v, 0)]
    /\ UNCHANGED <<now, pod, removed, mu, pods, pdbs, stores, evicts, faults>>

\* an Eviction admission review reaches the instance lb: handle_common with
\* the eviction handler as its `handle`, any closure of handle_common's
\* signature, which returns some Result<InterceptResult>
EvictionRequest(lb) ==
    /\ hook = HookIdle
    /\ IsSome(pod)
    /\ now < TicksPerSec
    /\ \E review \in Reviews(pod), result \in InterceptResults :
          LET h == HookReceived(lb, "eviction", review, Secs(MaxTimeoutSecs))
              common == handle_common(DownwardApiOf(lb), review)
          IN
          IF common.step = "respond"
          THEN hook' = HookRespond(h, common.response, common.report)
          ELSE hook' = HookRespond([h EXCEPT !.handle_called = TRUE],
                                   HandlerResultOf(result), "handle")
    /\ UNCHANGED <<now, pod, calls, removed, mu, pods, pdbs, stores, evicts, faults>>

\* patch_to_drain returns to handle_delete: an error ends the handler
\* (.context("patch")?), Gone allows, Draining goes on to stall
HookPatched ==
    /\ hook.pc = "patching"
    /\ calls[hook.lb].pc \in {"done", "failed"}
    /\ calls' = [calls EXCEPT ![hook.lb] = CallIdle]
    /\ LET call == calls[hook.lb]
           step == handle_delete_outcome(call.result)
       IN
       IF call.pc = "failed"
       THEN hook' = HookRespond(hook, HandlerResultOf(InterceptErr), "Error")
       ELSE IF step.step = "return"
       THEN hook' = HookRespond(hook, HandlerResultOf(step.result), step.report)
       ELSE hook' = HookStall([hook EXCEPT !.patched = TRUE],
                              step.drain_until, step.report)
    /\ UNCHANGED <<now, pod, removed, mu, pods, pdbs, stores, evicts, faults>>

\* the sleep of drain_until_or_deadline ends; handle_delete returns Allow
HookWake ==
    /\ hook.pc = "stalling"
    /\ now >= hook.wake
    /\ hook' = HookRespond(hook, HandlerResultOf(InterceptAllow),
                  drain_until_or_deadline(now, hook.drain_until, hook.deadline).report)
    /\ UNCHANGED <<now, pod, calls, removed, mu, pods, pdbs, stores, evicts, faults>>

\* the API server, answered `allowed`, carries out the DELETE it asked about
\* (not a dry run): the pod of the request is removed
ApiServerDelete ==
    /\ hook.pc = "responded"
    /\ hook.endpoint = "delete"
    /\ hook.response = ReviewResponse(TRUE)
    /\ ~hook.review.v.dry_run
    /\ IsSome(pod)
    /\ pod.uid = "uid-1"
    /\ pod' = NoPod
    /\ removed' = [by |-> "delete_request", lb |-> hook.lb]
    /\ hook' = [hook EXCEPT !.pc = "deleted", !.deleted_at = now]
    /\ UNCHANGED <<now, calls, mu, pods, pdbs, stores, evicts, faults>>

\* while patch_to_drain is under way the pod is removed by a DELETE that was
\* admitted before this request came
OtherDelete ==
    /\ hook.pc = "patching"
    /\ IsSome(pod)
    /\ SnapshotHeld
    /\ pod' = NoPod
    /\ removed' = [by |-> "other_request", lb |-> "none"]
    /\ UNCHANGED <<now, calls, hook, mu, pods, pdbs, stores, evicts, faults>>

\* the steps of patch() under patch_to_drain; HookPatched takes its result
DeletePatcher(c) ==
    \/ PatchDesired(c)
    \/ PatchFail(c)
    \/ PatchApplied(c)
    \/ PatchNotFound(c)
    \/ PatchTestFailed(c)
    \/ PatchTransient(c)
    \/ RefreshGet(c)
    \/ RefreshTransient(c)
    \/ RefreshFail(c)

DeleteNext ==
    \/ DeleteTick
    \/ ExternalUpdate
    \/ OtherDelete
    \/ \E lb \in Instances : DeleteRequest(lb)
    \/ \E lb \in Instances : EvictionRequest(lb)
    \/ HookPatched
    \/ HookWake
    \/ ApiServerDelete
    \/ \E c \in CallIds : DeletePatcher(c)
    \/ \E lb \in Instances : DrainReconcile(lb)

SpecDelete == DeleteInit /\ [][DeleteNext]_vars

(***************************************************************************)
(* The three mutate functions as a machine: draw a pod and the arguments,  *)
(* apply the function, apply it again to the pod it asked to patch to.     *)
(***************************************************************************)
MutateFns == {"mutate_to_drain", "mutate_to_evict", "mutate_to_evict_later"}

ApplyMutateFn(fn, p, t, lb, preserve) ==
    IF fn = "mutate_to_drain" THEN mutate_to_drain(p, t, lb, preserve)
    ELSE IF fn = "mutate_to_evict" THEN mutate_to_evict(p, t, lb, SomeDeleteOptions)
    ELSE mutate_to_evict_later(p, t, lb)

MutateArgs(fn) ==
    [t : 0..MaxMutateTime, lb : {"instance-id-1"},
     preserve : IF fn = "mutate_to_drain" THEN BOOLEAN ELSE {FALSE}]

MutateInit ==
    /\ now = 0
    /\ pod = NoPod
    /\ calls = [c \in CallIds |-> CallIdle]
    /\ removed = NotRemoved
    /\ hook = HookIdle
    /\ NoEvicts
    /\ \E fn \in MutateFns, p \in InputPods \cup OwnerPods \cup {NoPod} :
          \E a \in MutateArgs(fn) :
             mu = [pc |-> "in", fn |-> fn, pod |-> p, t |-> a.t, lb |-> a.lb,
                   preserve |-> a.preserve]

MutateFirst ==
    /\ mu.pc = "in"
    /\ mu' = [mu EXCEPT !.pc = "once"] @@
             [out1 |-> ApplyMutateFn(mu.fn, mu.pod, mu.t, mu.lb, mu.preserve)]

\* the same arguments again, on the pod the first call asked for
MutateAgain ==
    /\ mu.pc = "once"
    /\ mu.out1.tag = "RequirePatch"
    /\ mu' = [mu EXCEPT !.pc = "twice"] @@
             [out2 |-> ApplyMutateFn(mu.fn, mu.out1.pod, mu.t, mu.lb, mu.preserve)]

\* other arguments (another instant, another replica) on that pod
MutateAgainOther ==
    /\ mu.pc = "once"
    /\ mu.out1.tag = "RequirePatch"
    /\ \E t \in {0, MaxMutateTime}, lb \in Instances \ {mu.lb} :
          mu' = [mu EXCEPT !.pc = "other", !.t = t, !.lb = lb] @@
                [out2 |-> ApplyMutateFn(mu.fn, mu.out1.pod, t, lb, mu.preserve)]

MutateNext ==
    /\ MutateFirst \/ MutateAgain \/ MutateAgainOther
    /\ UNCHANGED <<now, pod, calls, removed, hook, pods, pdbs, stores, evicts, faults>>

SpecMutate == MutateInit /\ [][MutateNext]_vars

(***************************************************************************)
(* C9: each of mutate_to_drain, mutate_to_evict and mutate_to_evict_later  *)
(* is idempotent: applied with the same arguments to the pod carried by    *)
(* its own RequirePatch result it returns DesiredState, never RequirePatch;*)
(* mutate_to_drain and mutate_to_evict do so for any later instant and any *)
(* other replica as well.                                                  *)
(***************************************************************************)
C9_Idempotent ==
    /\ mu.pc = "twice" => mu.out2.tag = "DesiredState"
    /\ (mu.pc = "other" /\ mu.fn \in {"mutate_to_drain", "mutate_to_evict"})
           => mu.out2.tag = "DesiredState"

\* an evict-later request with a sub-second part was written and re-applied
C9_Witness ==
    /\ mu.pc = "twice"
    /\ mu.fn = "mutate_to_evict_later"
    /\ mu.t % TicksPerSec # 0
    /\ mu.out2 = DesiredState(OutcomeWaitingForPodDisruptionBudget)

(***************************************************************************)
(* Claims about the patch protocol (Spec)                                  *)
(***************************************************************************)
DrainingLabelOf(p) == get_pod_draining_label_value(p)
SamePod(p, q) == IsSome(p) /\ IsSome(q) /\ p.uid = q.uid

\* the step is the API server accepting a PATCH of the call c
Wrote(c) ==
    /\ calls[c].pc \in {"mutate", "patched"}
    /\ calls'[c].pc = "patched"
    /\ IsSome(pod')
    /\ pod' # pod
    /\ calls'[c].last_known = pod'

(***************************************************************************)
(* C1: for one pod uid the draining label never goes from `true`           *)
(* (Draining) to `evicting` (Evicting) in any step, whichever webhook or   *)
(* reconciler patches on whichever replica; and no PATCH of a call that    *)
(* wants Evicting (patch_to_evict, patch_to_evict_later) is accepted on a  *)
(* pod that is Draining: such a writer leaves the pod as it is.            *)
(***************************************************************************)
C1_NoRegress ==
    [][/\ (SamePod(pod, pod') /\ DrainingLabelOf(pod) = OkSome(Draining))
           => DrainingLabelOf(pod') # OkSome(Evicting)
       /\ \A c \in CallIds :
             (Wrote(c) /\ calls[c].kind \in {"evict", "evict_later"})
                 => DrainingLabelOf(pod) # OkSome(Draining)]_vars

\* one replica has patched the pod to Draining, and the call of the other,
\* which wants Evicting, found it so and returned
C1_Witness ==
    /\ IsSome(pod)
    /\ DrainingLabelOf(pod) = OkSome(Draining)
    /\ \E c \in CallIds, d \in CallIds :
          /\ c # d
          /\ calls[c].pc = "done"
          /\ calls[c].kind \in {"evict", "evict_later"}
          /\ calls[c].result = OutcomeKeepDraining
          /\ calls[d].pc = "patched"
          /\ calls[d].kind = "drain"
          /\ calls[d].last_known = pod

(***************************************************************************)
(* C2: once the drain-timestamp annotation of a pod parses as RFC 3339, no *)
(* step changes or removes it, whatever the draining label is and          *)
(* whichever call patches from whichever replica: the pod keeps the        *)
(* annotation with the same string for as long as it exists.               *)
(***************************************************************************)
C2_DrainTimestampKept ==
    [][(SamePod(pod, pod') /\ get_pod_drain_timestamp(pod).tag = "Some")
          => /\ DRAIN_TIMESTAMP_ANNOTATION_KEY \in DOMAIN pod'.annotations
             /\ pod'.annotations[DRAIN_TIMESTAMP_ANNOTATION_KEY]
                    = pod.annotations[DRAIN_TIMESTAMP_ANNOTATION_KEY]]_vars

\* a patch to Draining has just been accepted on a pod that was not Draining
\* and had a valid drain-timestamp from before the clock of the model started
C2_Witness ==
    /\ IsSome(pod)
    /\ DrainingLabelOf(pod) = OkSome(Draining)
    /\ get_pod_drain_timestamp(pod) = OkSome(0 - delete_after)
    /\ \E c \in CallIds :
          /\ calls[c].pc = "patched"
          /\ calls[c].kind = "drain"
          /\ calls[c].last_known = pod
          /\ am_i_pod_drain_controller(pod, "instance-id-2")

(***************************************************************************)
(* C7: no patch computed from a stale snapshot is applied.  Whenever the   *)
(* resourceVersion or the uid of the stored pod differs from the snapshot  *)
(* a call is about to send a PATCH for, the API server answers that PATCH  *)
(* with the failed test; every change of the stored pod's labels,          *)
(* annotations or owner references is a PATCH computed from exactly the    *)
(* stored object; and a call leaves the refresh only with the object the   *)
(* server stores (or none) as its snapshot, on which the mutate function   *)
(* is evaluated anew before any other PATCH.                               *)
(***************************************************************************)
Stale(call) ==
    /\ IsSome(pod)
    /\ IsSome(call.last_known)
    /\ call.last_known.rv # pod.rv \/ call.last_known.uid # pod.uid

C7_NoStalePatch ==
    /\ [](\A c \in CallIds :
            (InLoop(calls[c]) /\ SendsPatch(calls[c]) /\ Stale(calls[c]))
               => ApplyPatch(pod, CallPatch(calls[c], CallMutate(calls[c]).pod)).st
                     = "test_failed")
    /\ [][/\ (/\ SamePod(pod, pod')
               /\ \/ pod'.labels # pod.labels
                  \/ pod'.annotations # pod.annotations
                  \/ pod'.ownerReferences # pod.ownerReferences)
              => (\E w \in CallIds : Wrote(w) /\ calls[w].last_known = pod)
           /\ \A c \in CallIds :
                 (calls[c].pc = "refresh" /\ calls'[c].pc \in {"mutate", "patched"})
                    => /\ calls'[c].pc = "mutate"
                       /\ calls'[c].last_known \in {pod, NoPod}
                       /\ pod' = pod]_vars

\* a replica is about to send a PATCH computed from a snapshot that the other
\* replica's accepted PATCH has made stale, and the server will reject it
C7_Witness ==
    \E c \in CallIds, d \in CallIds :
        /\ c # d
        /\ InLoop(calls[c]) /\ SendsPatch(calls[c]) /\ Stale(calls[c])
        /\ calls[c].last_known.labels # pod.labels
        /\ calls[d].pc = "patched"
        /\ calls[d].last_known = pod
        /\ ApplyPatch(pod, CallPatch(calls[c], CallMutate(calls[c]).pod)).st = "test_failed"

(***************************************************************************)
(* C10: while a pod stays Evicting, the parsed value of its evict-after    *)
(* annotation never decreases in any step; and a PATCH of a                *)
(* patch_to_evict_later call is accepted on a pod with a valid evict-after *)
(* only when the requested time is later than that value: a request not    *)
(* later than it leaves the pod as it is.                                  *)
(***************************************************************************)
C10_EvictAfterMonotonic ==
    [][/\ (/\ SamePod(pod, pod')
           /\ DrainingLabelOf(pod) = OkSome(Evicting)
           /\ DrainingLabelOf(pod') = OkSome(Evicting)
           /\ get_pod_evict_after(pod).tag = "Some")
          => /\ get_pod_evict_after(pod').tag = "Some"
             /\ get_pod_evict_after(pod').v >= get_pod_evict_after(pod).v
       /\ \A c \in CallIds :
             (/\ Wrote(c)
              /\ calls[c].kind = "evict_later"
              /\ get_pod_evict_after(pod).tag = "Some")
                => calls[c].t > get_pod_evict_after(pod).v]_vars

\* a patch_to_evict_later call returned without a PATCH of its own: the
\* other replica had written a later evict-after in the meantime
C10_Witness ==
    /\ IsSome(pod)
    /\ DrainingLabelOf(pod) = OkSome(Evicting)
    /\ get_pod_evict_after(pod).tag = "Some"
    /\ \E c \in CallIds, d \in CallIds :
          /\ c # d
          /\ calls[c].pc = "done"
          /\ calls[c].kind = "evict_later"
          /\ calls[c].result = OutcomeWaitingForPodDisruptionBudget
          /\ calls[c].t <= get_pod_evict_after(pod).v
          /\ am_i_pod_drain_controller(pod, d)
          /\ calls[d].pc = "patched"
          /\ calls[d].kind = "evict_later"
          /\ calls[d].last_known = pod

(***************************************************************************)
(* Claims about the delete webhook and the drain reconciler (SpecDelete)   *)
(***************************************************************************)
Min(a, b) == IF a <= b THEN a ELSE b
\* the handler has returned its response
Answered == hook.pc \in {"responded", "deleted"}
\* the request came to the delete webhook
AnsweredDelete == Answered /\ hook.endpoint = "delete"

(***************************************************************************)
(* C3, as the program has it: a pod that the delete webhook has moved to   *)
(* Draining is held by the webhook until drain_timestamp + delete_after or *)
(* until the deadline start + timeout - 5 s, whichever comes first: the    *)
(* response does not leave before that instant, so the DELETE request does *)
(* not remove the pod before it; and the drain reconciler removes such a   *)
(* pod only after drain_timestamp + delete_after.                          *)
(***************************************************************************)
C3_HeldUntilDrainedOrDeadline ==
    (hook.pc # "idle" /\ hook.patched) =>
        /\ Answered => hook.responded_at >= Min(hook.drain_until, hook.deadline)
        /\ removed.by = "delete_request"
              => hook.deleted_at >= Min(hook.drain_until, hook.deadline)
        /\ removed.by = "drain_reconciler" => now > hook.drain_until

\* the stall of a pod the webhook moved to Draining ended at the deadline,
\* the DELETE was allowed and removed the pod before
\* drain_timestamp + delete_after
C3_Witness ==
    /\ hook.pc = "deleted"
    /\ hook.patched
    /\ hook.report = "Timeout"
    /\ removed.by = "delete_request"
    /\ hook.deadline < hook.drain_until
    /\ hook.deleted_at >= hook.deadline
    /\ hook.deleted_at < hook.drain_until

(***************************************************************************)
(* C3, as the claim has it: a pod that the delete webhook has moved to     *)
(* Draining is not removed by the allowed DELETE request before            *)
(* drain_timestamp + delete_after, whatever the admission timeout is.      *)
(***************************************************************************)
C3_ExistsUntilDrained ==
    (hook.pc # "idle" /\ hook.patched /\ removed.by = "delete_request")
        => hook.deleted_at >= hook.drain_until

(***************************************************************************)
(* C4: the drain reconciler of an instance removes a pod only at or after  *)
(* drain_timestamp + delete_after when the pod's controller annotation     *)
(* names that instance, and only at or after drain_timestamp +             *)
(* delete_after + 10 s + jitter, with jitter >= 0, when the annotation     *)
(* names another instance or is absent; no reconcile before that instant   *)
(* removes the pod.                                                        *)
(***************************************************************************)
C4_DrainDeleteNotEarly ==
    [][\A lb \in Instances :
          (/\ IsSome(pod)
           /\ ~IsSome(pod')
           /\ removed'.by = "drain_reconciler"
           /\ removed'.lb = lb)
             => LET drain_timestamp == get_pod_drain_timestamp(pod)
                    mine == /\ DRAIN_CONTROLLER_ANNOTATION_KEY \in DOMAIN pod.annotations
                            /\ pod.annotations[DRAIN_CONTROLLER_ANNOTATION_KEY]
                                   = [raw |-> lb]
                    jitter == get_stable_jitter(pod, lb, Secs(10))
                IN /\ drain_timestamp.tag = "Some"
                   /\ now >= drain_timestamp.v + delete_after
                   /\ jitter >= 0
                   /\ ~mine => now >= drain_timestamp.v + delete_after + Secs(10) + jitter
      ]_vars

\* an instance that is not the pod's drain controller has removed the pod
C4_Witness ==
    /\ ~IsSome(pod)
    /\ removed.by = "drain_reconciler"
    /\ ~removed.owner
    /\ now >= Secs(1)

(***************************************************************************)
(* C5: every admission decision the delete webhook returns has             *)
(* allowed = true, whatever the request and the pod are (any draining      *)
(* label, an invalid one too, any phase, readiness, exposure and           *)
(* drain-timestamp), at once or after a patch and a stall.                 *)
(***************************************************************************)
C5_NeverDenies ==
    (AnsweredDelete /\ hook.response.kind = "review") => hook.response.allowed

\* a DELETE of a running pod whose draining label is no draining state was
\* classified and allowed
C5_Witness ==
    /\ AnsweredDelete
    /\ hook.handle_called
    /\ hook.report = "Manual"
    /\ get_pod_draining_label_value(hook.review.v.old_object.v).tag = "Err"
    /\ hook.response = ReviewResponse(TRUE)

(***************************************************************************)
(* C6, as the claim has it: the delete webhook answers every DELETE        *)
(* admission request no later than start + timeout - 5 s, in every branch  *)
(* of the handler, the time of patching the pod to Draining included.      *)
(***************************************************************************)
C6_RespondsByDeadline ==
    AnsweredDelete => hook.responded_at <= hook.started_at + hook.timeout - Secs(5)

(***************************************************************************)
(* C8: a delete or eviction admission request whose user-info is the       *)
(* instance's own service account (the username                            *)
(* system:serviceaccount:<ns>:<sa> and the three groups) is answered       *)
(* allowed at once as a reentry, before the dry-run check and before the   *)
(* handler classifies anything: the handler is not called and no patch is  *)
(* started.                                                                *)
(***************************************************************************)
OwnServiceAccount(lb, review) ==
    LET api == DownwardApiOf(lb) IN
    /\ review.tag = "Some"
    /\ api.pod_namespace.tag = "Some"
    /\ api.pod_service_account_name.tag = "Some"
    /\ review.v.user_info.username
         = Some(<<"system", "serviceaccount", api.pod_namespace.v,
                  api.pod_service_account_name.v>>)
    /\ review.v.user_info.groups.tag = "Some"
    /\ {<<"system", "serviceaccounts">>, <<"system", "authenticated">>,
        <<"system", "serviceaccounts", api.pod_namespace.v>>}
           \subseteq review.v.user_info.groups.v

C8_ReentryAllowedFirst ==
    (Answered /\ OwnServiceAccount(hook.lb, hook.review)) =>
        /\ hook.response = ReviewResponse(TRUE)
        /\ hook.report = "Reentry-Controller"
        /\ hook.responded_at = hook.started_at
        /\ ~hook.handle_called
        /\ ~hook.patched
        /\ calls[hook.lb] = CallIdle

\* a dry-run DELETE by the own service account, for a pod the handler would
\* have patched to Draining, was allowed as a reentry
C8_Witness ==
    /\ AnsweredDelete
    /\ OwnServiceAccount(hook.lb, hook.review)
    /\ hook.review.v.dry_run
    /\ hook.review.v.old_object.tag = "Some"
    /\ DeleteWouldPatch(hook.review.v.old_object.v)
    /\ hook.report = "Reentry-Controller"
    /\ hook.response = ReviewResponse(TRUE)

(***************************************************************************)
(* The pure mutations, on every input pod (SpecMutate)                     *)
(***************************************************************************)
MutateDone(fn) == mu.pc = "once" /\ mu.fn = fn /\ mu.out1.tag = "RequirePatch"

\* the labels of a pod other than the draining label
OtherLabels(p) == MapRemove(p.labels, DRAINING_LABEL_KEY)

OriginalLabelsKeySet == {OriginalLabelsKeys[i] : i \in 1..Len(OriginalLabelsKeys)}

(***************************************************************************)
(* C15: every pod labeled Draining by a patch is isolated: the pod that    *)
(* mutate_to_drain asks to write carries the draining label "true" and no  *)
(* other label, whatever the input pod, one whose ten original-labels keys *)
(* are all occupied included.                                              *)
(***************************************************************************)
C15_DrainingIsolated ==
    MutateDone("mutate_to_drain") =>
        /\ DRAINING_LABEL_KEY \in DOMAIN mu.out1.pod.labels
        /\ mu.out1.pod.labels[DRAINING_LABEL_KEY] = DRAINING_LABEL_VALUE__DRAINING
        /\ DOMAIN mu.out1.pod.labels = {DRAINING_LABEL_KEY}

(***************************************************************************)
(* C16: mutate_to_drain never drops a label without recording it: either   *)
(* the one original-labels annotation it adds holds the JSON of the        *)
(* input's labels (less the draining label when that label holds a valid   *)
(* state; a draining label with any other value is recorded with the       *)
(* rest), or every label of the input other than the draining label is     *)
(* still on the pod; and an original-labels annotation that was there is   *)
(* never overwritten.                                                      *)
(***************************************************************************)
AddedOriginalLabels ==
    (OriginalLabelsKeySet \cap DOMAIN mu.out1.pod.annotations)
        \ DOMAIN mu.pod.annotations

OriginalLabelsKept ==
    \A k \in OriginalLabelsKeySet \cap DOMAIN mu.pod.annotations :
        /\ k \in DOMAIN mu.out1.pod.annotations
        /\ mu.out1.pod.annotations[k] = mu.pod.annotations[k]

NoLabelRemoved ==
    \A k \in DOMAIN OtherLabels(mu.pod) :
        /\ k \in DOMAIN mu.out1.pod.labels
        /\ mu.out1.pod.labels[k] = mu.pod.labels[k]

Recorded(to_backup) ==
    /\ Cardinality(AddedOriginalLabels) = 1
    /\ \A k \in AddedOriginalLabels :
          mu.out1.pod.annotations[k] = [json |-> to_backup]

C16_LabelsRecordedOrKept ==
    MutateDone("mutate_to_drain") =>
        /\ OriginalLabelsKept
        /\ \/ Recorded(IF get_pod_draining_label_value(mu.pod).tag = "Some"
                       THEN OtherLabels(mu.pod) ELSE mu.pod.labels)
           \/ NoLabelRemoved

\* a pod whose draining label holds no valid state was drained, its labels
\* recorded
C16_Witness ==
    /\ MutateDone("mutate_to_drain")
    /\ get_pod_draining_label_value(mu.pod).tag = "Err"
    /\ "app" \in DOMAIN mu.pod.labels
    /\ AddedOriginalLabels # {}
    /\ ~NoLabelRemoved

\* C16 as the specification words it: the recorded JSON is always the labels
\* minus the draining key
C16_RecordedMinusDrainingKey ==
    MutateDone("mutate_to_drain") =>
        /\ OriginalLabelsKept
        /\ Recorded(OtherLabels(mu.pod)) \/ NoLabelRemoved

(***************************************************************************)
(* C17: after mutate_to_drain every owner reference of kind ReplicaSet,    *)
(* whatever its apiVersion, has its controller flag cleared, and the owner *)
(* references of every other kind are unchanged.                           *)
(***************************************************************************)
C17_ReplicaSetControllerCleared ==
    MutateDone("mutate_to_drain") =>
        /\ Len(mu.out1.pod.ownerReferences) = Len(mu.pod.ownerReferences)
        /\ \A i \in 1..Len(mu.pod.ownerReferences) :
              IF mu.pod.ownerReferences[i].kind = "ReplicaSet"
              THEN mu.out1.pod.ownerReferences[i] =
                       [mu.pod.ownerReferences[i] EXCEPT !.controller = "none"]
              ELSE mu.out1.pod.ownerReferences[i] = mu.pod.ownerReferences[i]

(***************************************************************************)
(* C18: the pod that mutate_to_evict asks to write differs from its input  *)
(* only in the draining label and in the controller, evict-after and       *)
(* delete-options annotations: every other label, every original-labels    *)
(* annotation, the drain-timestamp annotation and the owner references are *)
(* the input's, so a Service selects it exactly when it selected the input.*)
(***************************************************************************)
EvictAnnotationKeys ==
    {DRAIN_CONTROLLER_ANNOTATION_KEY, EVICT_AFTER_ANNOTATION_KEY,
     DELETE_OPTIONS_ANNOTATION_KEY}

OtherAnnotations(p) ==
    [k \in DOMAIN p.annotations \ EvictAnnotationKeys |-> p.annotations[k]]

C18_EvictFrame ==
    MutateDone("mutate_to_evict") =>
        /\ mu.out1.pod.labels[DRAINING_LABEL_KEY] = DRAINING_LABEL_VALUE__EVICTING
        /\ OtherLabels(mu.out1.pod) = OtherLabels(mu.pod)
        /\ OtherAnnotations(mu.out1.pod) = OtherAnnotations(mu.pod)
        /\ mu.out1.pod.ownerReferences = mu.pod.ownerReferences
        /\ [mu.out1.pod EXCEPT !.labels = mu.pod.labels,
                               !.annotations = mu.pod.annotations] = mu.pod
        /\ matches_labels(mu.out1.pod, ServiceSelector)
               = matches_labels(mu.pod, ServiceSelector)

\* a pod selected by the Service, with a drain-timestamp and original-labels
\* annotations of an earlier run, was moved to Evicting
C18_Witness ==
    /\ MutateDone("mutate_to_evict")
    /\ DRAINING_LABEL_KEY \notin DOMAIN mu.pod.labels
    /\ matches_labels(mu.pod, ServiceSelector)
    /\ DRAIN_TIMESTAMP_ANNOTATION_KEY \in DOMAIN mu.pod.annotations
    /\ OriginalLabelsKeySet \subseteq DOMAIN mu.pod.annotations
    /\ mu.out1.pod.annotations[DELETE_OPTIONS_ANNOTATION_KEY] = [json |-> SomeDeleteOptions]

(***************************************************************************)
(* The Evicting to Draining transition (Spec)                              *)
(***************************************************************************)
\* the step takes the stored pod from Evicting to Draining
EvictingToDraining ==
    /\ SamePod(pod, pod')
    /\ DrainingLabelOf(pod) = OkSome(Evicting)
    /\ DrainingLabelOf(pod') = OkSome(Draining)

\* the step is a PATCH of the evict reconciler's patch_to_drain, called after
\* the decrementer answered Ok in that reconcile
WroteByEvictReconciler(c) ==
    /\ Wrote(c)
    /\ calls[c].kind = "drain"
    /\ calls[c].caller = "Controller"
    /\ calls[c].pdb = "Ok"

\* the step is a PATCH of the patch_to_drain that handle_delete calls
WroteByDeleteWebhook(c) ==
    /\ Wrote(c)
    /\ calls[c].kind = "drain"
    /\ calls[c].caller = "Webhook"

(***************************************************************************)
(* C13: a pod labeled Evicting becomes Draining only by a PATCH of         *)
(* patch_to_drain, called either by the evict reconciler after the PDB     *)
(* decrementer answered Ok in the same reconcile, or by the delete webhook *)
(* when a DELETE request for the Evicting pod is admitted (no PDB is       *)
(* consulted there).                                                       *)
(***************************************************************************)
C13_EvictingToDrainingWriters ==
    [][EvictingToDraining =>
          \E c \in CallIds : WroteByEvictReconciler(c) \/ WroteByDeleteWebhook(c)]_vars

\* the delete webhook's patch_to_drain has moved to Draining a pod that an
\* intercepted eviction had left Evicting with its delete-options
C13_Witness ==
    \E c \in CallIds :
        /\ calls[c].pc = "patched"
        /\ calls[c].kind = "drain"
        /\ calls[c].caller = "Webhook"
        /\ calls[c].last_known = pod
        /\ DrainingLabelOf(pod) = OkSome(Draining)
        /\ DELETE_OPTIONS_ANNOTATION_KEY \in DOMAIN pod.annotations

\* C13 as the specification words it: the evict reconciler is the only one
C13_OnlyEvictReconciler ==
    [][EvictingToDraining => \E c \in CallIds : WroteByEvictReconciler(c)]_vars

(***************************************************************************)
(* C14: the delete-options annotation of an Evicting pod is still present  *)
(* and unchanged after the evict reconciler's Evicting to Draining PATCH.  *)
(***************************************************************************)
C14_DeleteOptionsPreserved ==
    [][\A c \in CallIds :
          (/\ WroteByEvictReconciler(c)
           /\ EvictingToDraining
           /\ DELETE_OPTIONS_ANNOTATION_KEY \in DOMAIN pod.annotations)
            => /\ DELETE_OPTIONS_ANNOTATION_KEY \in DOMAIN pod'.annotations
               /\ pod'.annotations[DELETE_OPTIONS_ANNOTATION_KEY]
                      = pod.annotations[DELETE_OPTIONS_ANNOTATION_KEY]]_vars

(***************************************************************************)
(* src/controllers/evict.rs with src/pod_disruption_budget.rs: the evict   *)
(* reconcilers of the replicas on the Evicting pods of one namespace, the  *)
(* PodDisruptionBudgets and each replica's reflector store (SpecPdb)       *)
(***************************************************************************)
MaxDisruptionsAllowed == 1

\* no reconcile of the pod is running on the replica (it is queued again)
EvictIdle == [pc |-> "idle"]

\* an evict-after that has passed when the clock of the model starts
EvictAfterPast == EVICT_AFTER_ANNOTATION_KEY :> [time |-> 0 - Secs(1)]

\* an Evicting pod as patch_to_evict leaves it (controller and evict-after)
\* or as labeled by hand (neither), ready or not
EvictingPod(name, annotations, ready) ==
    [MakePod(name, 1, Label(DRAINING_LABEL_VALUE__EVICTING) @@ ("app" :> "test"),
             annotations)
        EXCEPT !.conditions = ("Ready" :> (IF ready THEN "True" ELSE "False"))]

\* the PodDisruptionBudget "pdb-1" as the disruption controller computed it:
\* disruptionsAllowed = currentHealthy - desiredHealthy = k
ComputedPdb(policy, k) ==
    MakePdb("pdb-1", 1, policy, 1, k, Cardinality(PodNames) - k)

UnhealthyPodEvictionPolicies == {"none", "AlwaysAllow", "IfHealthyBudget"}

\* "pdb-1" computed, not yet observed at its generation, or with a negative
\* disruptionsAllowed; or computed, with a second PodDisruptionBudget that
\* selects the same pods; or of another namespace, without a budget; or
\* computed with a budget for every pod
InitPdbStores ==
    {("pdb-1" :> b) @@ ("pdb-2" :> NoPdb) :
        b \in {ComputedPdb("none", k) : k \in 0..MaxDisruptionsAllowed}
               \cup {[ComputedPdb("none", MaxDisruptionsAllowed)
                         EXCEPT !.observed_generation = 0],
                     [ComputedPdb("none", 0) EXCEPT !.disruptions_allowed = 0 - 1]}}
    \cup {("pdb-1" :> ComputedPdb("none", MaxDisruptionsAllowed)) @@
          ("pdb-2" :> MakePdb("pdb-2", 1, "none", 1, 0, Cardinality(PodNames)))}
    \cup {("pdb-1" :> [ComputedPdb("none", 0) EXCEPT !.namespace = "ns2"]) @@
          ("pdb-2" :> NoPdb)}
    \cup {("pdb-1" :> ComputedPdb("none", Cardinality(PodNames))) @@ ("pdb-2" :> NoPdb)}

\* with a pod that is not ready, every unhealthyPodEvictionPolicy
InitUnhealthyPdbStores ==
    {("pdb-1" :> ComputedPdb(policy, k)) @@ ("pdb-2" :> NoPdb) :
        policy \in UnhealthyPodEvictionPolicies, k \in 0..MaxDisruptionsAllowed}

\* two ready pods labeled by hand, or one of them not ready and left
\* Evicting by patch_to_evict of the instance 1
InitEvicts ==
    {[pods |-> ("pod-1" :> EvictingPod("pod-1", EmptyMap, TRUE)) @@
               ("pod-2" :> EvictingPod("pod-2", EmptyMap, TRUE)),
      pdbs |-> s] : s \in InitPdbStores}
    \cup
    {[pods |-> ("pod-1" :> EvictingPod("pod-1", EvictAfterPast @@ ControllerOne, FALSE))
               @@ ("pod-2" :> EvictingPod("pod-2", EmptyMap, TRUE)),
      pdbs |-> s] : s \in InitUnhealthyPdbStores}

PdbInit ==
    /\ now = 0
    /\ pod = NoPod
    /\ calls = [c \in CallIds |-> CallIdle]
    /\ removed = NotRemoved
    /\ hook = HookIdle
    /\ mu = MuIdle
    /\ \E i \in InitEvicts : pods = i.pods /\ pdbs = i.pdbs
    /\ stores = [lb \in Instances |-> pdbs]
    /\ evicts = [lb \in Instances |-> [n \in PodNames |-> EvictIdle]]
    /\ faults = 0

\* reconcile of the replica lb on the pod named n: the early returns, the
\* backoff, and decrease_pod_disruption_budget up to its PUT
EvictReconcile(lb, n) ==
    /\ evicts[lb][n].pc = "idle"
    /\ IsSome(pods[n])
    /\ ~pods[n].deletionTimestamp
    /\ get_pod_draining_label_value(pods[n]) = OkSome(Evicting)
    /\ ~EvictBackoff(pods[n], lb)
    /\ LET d == decrease_begin(pods[n], n, stores[lb], now) IN
       evicts' = [evicts EXCEPT ![lb][n] =
           IF d.step = "err" THEN EvictIdle
           ELSE IF d.step = "ok" THEN [pc |-> "drain", how |-> d.how]
           ELSE IF d.step = "too_many_requests"
           THEN [pc |-> "evict_later",
                 t |-> now + Secs(Max(d.retry_after_seconds, 1))]
           ELSE [pc |-> "put", request |-> d.request]]
    /\ UNCHANGED <<now, pod, calls, removed, hook, mu, pods, pdbs, stores, faults>>

\* the API server replaces the status: the request carries the
\* resourceVersion the stored object has (or none)
ReplaceStatusOk(lb, n) ==
    /\ evicts[lb][n].pc = "put"
    /\ LET request == evicts[lb][n].request
           stored == pdbs[request.name]
       IN
       /\ IsSomePdb(stored)
       /\ request.rv = 0 \/ request.rv = stored.rv
       /\ pdbs' = [pdbs EXCEPT ![request.name] =
              [stored EXCEPT !.rv = stored.rv + 1,
                             !.observed_generation = request.observed_generation,
                             !.disruptions_allowed = request.disruptions_allowed,
                             !.current_healthy = request.current_healthy,
                             !.desired_healthy = request.desired_healthy,
                             !.disrupted_pods = request.disrupted_pods,
                             !.condition = request.condition]]
    /\ evicts' = [evicts EXCEPT ![lb][n] = [pc |-> "drain", how |-> "decrement"]]
    /\ UNCHANGED <<now, pod, calls, removed, hook, mu, pods, stores, faults>>

\* the stored object has moved on: 409, decrease_pod_disruption_budget
\* returns the Kube error and reconcile fails
ReplaceStatusConflict(lb, n) ==
    /\ evicts[lb][n].pc = "put"
    /\ LET request == evicts[lb][n].request
           stored == pdbs[request.name]
       IN
       /\ IsSomePdb(stored)
       /\ request.rv # 0 /\ request.rv # stored.rv
    /\ evicts' = [evicts EXCEPT ![lb][n] = EvictIdle]
    /\ UNCHANGED <<now, pod, calls, removed, hook, mu, pods, pdbs, stores, faults>>

\* 404: "PDB is gone anyway, allowed to disrupt"
ReplaceStatusNotFound(lb, n) ==
    /\ evicts[lb][n].pc = "put"
    /\ ~IsSomePdb(pdbs[evicts[lb][n].request.name])
    /\ evicts' = [evicts EXCEPT ![lb][n] = [pc |-> "drain", how |-> "gone"]]
    /\ UNCHANGED <<now, pod, calls, removed, hook, mu, pods, pdbs, stores, faults>>

\* any other error of the request
ReplaceStatusError(lb, n) ==
    /\ evicts[lb][n].pc = "put"
    /\ evicts' = [evicts EXCEPT ![lb][n] = EvictIdle]
    /\ UNCHANGED <<now, pod, calls, removed, hook, mu, pods, pdbs, stores, faults>>

\* what a patch() call that succeeds leaves on the server: the mutation
\* applied to the pod stored, written when it requires a patch
Patched(stored, outcome) ==
    IF outcome.tag = "RequirePatch" THEN [outcome.pod EXCEPT !.rv = stored.rv + 1]
    ELSE stored

\* reconcile after Ok(()): patch_to_drain as the controller
PatchToDrain(lb, n) ==
    /\ evicts[lb][n].pc = "drain"
    /\ pods' = [pods EXCEPT ![n] = Patched(pods[n], mutate_to_drain(pods[n], now, lb, FALSE))]
    /\ evicts' = [evicts EXCEPT ![lb][n] = EvictIdle]
    /\ UNCHANGED <<now, pod, calls, removed, hook, mu, pdbs, stores, faults>>

\* reconcile after TooManyRequests: patch_to_evict_later
PatchToEvictLater(lb, n) ==
    /\ evicts[lb][n].pc = "evict_later"
    /\ LET outcome == mutate_to_evict_later(pods[n], evicts[lb][n].t, lb) IN
       /\ outcome.tag # "Err"
       /\ pods' = [pods EXCEPT ![n] = Patched(pods[n], outcome)]
    /\ evicts' = [evicts EXCEPT ![lb][n] = EvictIdle]
    /\ UNCHANGED <<now, pod, calls, removed, hook, mu, pdbs, stores, faults>>

\* either patch fails: reconcile returns the error, nothing is written
EvictPatchError(lb, n) ==
    /\ evicts[lb][n].pc \in {"drain", "evict_later"}
    /\ evicts' = [evicts EXCEPT ![lb][n] = EvictIdle]
    /\ UNCHANGED <<now, pod, calls, removed, hook, mu, pods, pdbs, stores, faults>>

\* the reflector of the replica lb catches up with the API server
StoreSync(lb) ==
    /\ stores[lb] # pdbs
    /\ stores' = [stores EXCEPT ![lb] = pdbs]
    /\ UNCHANGED <<now, pod, calls, removed, hook, mu, pods, pdbs, evicts, faults>>

\* the disruption controller observes the generation of a
\* PodDisruptionBudget and writes its status, disruptionsAllowed as it was
DisruptionControllerObserves ==
    /\ \E name \in PdbNames :
          /\ IsSomePdb(pdbs[name])
          /\ pdbs[name].observed_generation < pdbs[name].generation
          /\ pdbs' = [pdbs EXCEPT ![name] =
                 [pdbs[name] EXCEPT !.observed_generation = pdbs[name].generation,
                                    !.rv = pdbs[name].rv + 1]]
    /\ UNCHANGED <<now, pod, calls, removed, hook, mu, pods, stores, evicts, faults>>

\* a user deletes the PodDisruptionBudget
PdbDeleted ==
    /\ IsSomePdb(pdbs["pdb-1"])
    /\ pdbs' = [pdbs EXCEPT !["pdb-1"] = NoPdb]
    /\ UNCHANGED <<now, pod, calls, removed, hook, mu, pods, stores, evicts, faults>>

\* the clock stands still: what the reconcilers do as time passes is the
\* matter of SpecEvictLive
PdbNext ==
    \/ \E lb \in Instances, n \in PodNames :
          \/ EvictReconcile(lb, n)
          \/ ReplaceStatusOk(lb, n)
          \/ ReplaceStatusConflict(lb, n)
          \/ ReplaceStatusNotFound(lb, n)
          \/ ReplaceStatusError(lb, n)
          \/ PatchToDrain(lb, n)
          \/ PatchToEvictLater(lb, n)
          \/ EvictPatchError(lb, n)
    \/ \E lb \in Instances : StoreSync(lb)
    \/ DisruptionControllerObserves
    \/ PdbDeleted

SpecPdb == PdbInit /\ [][PdbNext]_vars

(***************************************************************************)
(* Claims on the PodDisruptionBudget decrementer (SpecPdb)                 *)
(***************************************************************************)
\* a reconcile of lb on n that starts now runs check_and_decrease on the one
\* matching PodDisruptionBudget of its store, which has no disruption left
ChecksWithoutBudget(lb, n) ==
    /\ IsSome(pods[n])
    /\ get_pdb(stores[lb], pods[n]).tag = "Some"
    /\ check_pod_disruption_policy(pods[n], get_pdb(stores[lb], pods[n]).v)
           = [tag |-> "Ok", v |-> "EvictIfBudgetAllows"]
    /\ get_pdb(stores[lb], pods[n]).v.disruptions_allowed <= 0

(***************************************************************************)
(* C11: when the decrementer checks the budget of the matching             *)
(* PodDisruptionBudget and its disruptionsAllowed is 0 or less, it refuses *)
(* with an error: the reconcile neither sends a status write nor goes on   *)
(* to patch the pod to Draining; and no status write it sends, and no      *)
(* status it changes on the server, has disruptionsAllowed < 0.            *)
(***************************************************************************)
C11_RefusesWithoutBudget ==
    [][/\ \A lb \in Instances, n \in PodNames :
             (evicts[lb][n].pc = "idle" /\ ChecksWithoutBudget(lb, n))
                 => evicts'[lb][n].pc \notin {"put", "drain"}
       /\ \A lb \in Instances, n \in PodNames :
             evicts'[lb][n].pc = "put"
                 => evicts'[lb][n].request.disruptions_allowed >= 0
       /\ \A name \in PdbNames :
             (/\ IsSomePdb(pdbs[name]) /\ IsSomePdb(pdbs'[name])
              /\ pdbs'[name].disruptions_allowed # pdbs[name].disruptions_allowed)
                 => pdbs'[name].disruptions_allowed >= 0]_vars

\* a reconcile found disruptionsAllowed = 0 on an observed PodDisruptionBudget
\* and was refused with TooManyRequests: it is about to patch evict-after
C11_Witness ==
    \E lb \in Instances, n \in PodNames :
        /\ evicts[lb][n].pc = "evict_later"
        /\ ChecksWithoutBudget(lb, n)
        /\ stores[lb]["pdb-1"].observed_generation = stores[lb]["pdb-1"].generation
        /\ stores[lb]["pdb-1"].disruptions_allowed = 0
        /\ pdbs = stores[lb]

\* what the disruption controller computed for the PodDisruptionBudget
Budget(pdb) == Max(0, pdb.current_healthy - pdb.desired_healthy)

\* the ready pods that have been moved to Draining
DrainedReady ==
    {n \in PodNames : /\ IsSome(pods[n])
                      /\ get_pod_draining_label_value(pods[n]) = OkSome(Draining)
                      /\ is_pod_ready(pods[n])}

(***************************************************************************)
(* C12: while the one PodDisruptionBudget that selects the Evicting pods   *)
(* exists and is not recomputed, at most k = its computed budget of the    *)
(* ready pods reconciled concurrently, by one replica or by both, are moved*)
(* to Draining, each of them recorded in disruptedPods by an accepted      *)
(* status write; and every change of disruptionsAllowed on the server is a *)
(* decrement by one of the status stored, which keeps the disruptedPods it *)
(* had: a write computed from a snapshot no longer current is rejected.    *)
(***************************************************************************)
C12_AtMostBudget ==
    /\ [](( /\ IsSomePdb(pdbs["pdb-1"]) /\ ~IsSomePdb(pdbs["pdb-2"])
            /\ pdbs["pdb-1"].namespace = PodNamespace ) =>
            /\ DrainedReady \subseteq DOMAIN pdbs["pdb-1"].disrupted_pods
            /\ Cardinality(DOMAIN pdbs["pdb-1"].disrupted_pods)
                   <= Budget(pdbs["pdb-1"]) - pdbs["pdb-1"].disruptions_allowed
            /\ Cardinality(DrainedReady) <= Budget(pdbs["pdb-1"]))
    /\ [][\A name \in PdbNames :
             (/\ IsSomePdb(pdbs[name]) /\ IsSomePdb(pdbs'[name])
              /\ pdbs'[name].disruptions_allowed # pdbs[name].disruptions_allowed)
                 => /\ pdbs'[name].disruptions_allowed
                           = pdbs[name].disruptions_allowed - 1
                    /\ pdbs'[name].rv > pdbs[name].rv
                    /\ \A n \in DOMAIN pdbs[name].disrupted_pods :
                           n \in DOMAIN pdbs'[name].disrupted_pods]_vars

\* one pod has been moved to Draining by the last disruption allowed, while
\* the status write of another reconcile, computed from the earlier
\* snapshot, is still on its way
C12_Witness ==
    \E lb \in Instances, n \in PodNames :
        /\ evicts[lb][n].pc = "put"
        /\ IsSomePdb(pdbs["pdb-1"])
        /\ evicts[lb][n].request.rv < pdbs["pdb-1"].rv
        /\ pdbs["pdb-1"].disruptions_allowed = 0
        /\ \E m \in DrainedReady : m # n /\ m \in DOMAIN pdbs["pdb-1"].disrupted_pods

(***************************************************************************)
(* The evict and the drain reconciler of one running replica as time       *)
(* passes (SpecLive): the instance 1, named in the pods' controller        *)
(* annotation, has crashed; the instance 2 reconciles.                     *)
(***************************************************************************)
LiveInstances == {"instance-id-2"}

\* how many API requests of the reconcilers are answered with an error
MaxFaults == 1

\* long enough for the exclusive duration and the jitter, one wait for the
\* generation to be observed, the waits after the errors, and delete_after
LiveHorizon ==
    Secs(CONTROLLER_EXCLUSIVE_DURATION + CONTROLLER_TIMEOUT_JITTER
         + RETRY_AFTER_UNOBSERVED + MaxFaults + 2) + delete_after

\* the pod: Evicting (left by the instance 1, ready or not, or labeled by
\* hand), or Draining with a valid drain-timestamp (left by the instance 1)
LivePods ==
    {EvictingPod("pod-1", EvictAfterValid @@ ControllerOne, ready) : ready \in BOOLEAN}
    \cup {EvictingPod("pod-1", EmptyMap, TRUE),
          MakePod("pod-1", 1, Label(DRAINING_LABEL_VALUE__DRAINING),
                  DrainTimestampValid @@ ControllerOne)}

\* no PodDisruptionBudget, or one that permits a disruption: computed with
\* a budget, its generation observed or about to be
LivePdbs ==
    {NoPdb, ComputedPdb("none", MaxDisruptionsAllowed),
     ComputedPdb("IfHealthyBudget", MaxDisruptionsAllowed),
     [ComputedPdb("none", MaxDisruptionsAllowed) EXCEPT !.observed_generation = 0]}

LiveInit ==
    /\ now = 0
    /\ pod = NoPod
    /\ calls = [c \in CallIds |-> CallIdle]
    /\ removed = NotRemoved
    /\ hook = HookIdle
    /\ mu = MuIdle
    /\ \E p \in LivePods : pods = ("pod-1" :> p) @@ ("pod-2" :> NoPod)
    /\ \E b \in LivePdbs : pdbs = ("pdb-1" :> b) @@ ("pdb-2" :> NoPdb)
    /\ stores = [lb \in Instances |-> pdbs]
    /\ evicts = [lb \in Instances |-> [n \in PodNames |-> EvictIdle]]
    /\ faults = 0

\* the evict reconciler of lb has something to do for the pod named n now:
\* a reconcile is running, or one that starts would not fail
EvictDue(lb, n) ==
    \/ evicts[lb][n].pc # "idle"
    \/ /\ IsSome(pods[n])
       /\ ~pods[n].deletionTimestamp
       /\ get_pod_draining_label_value(pods[n]) = OkSome(Evicting)
       /\ ~EvictBackoff(pods[n], lb)
       /\ decrease_begin(pods[n], n, stores[lb], now).step # "err"

DrainDue(lb, n) == IsSome(pods[n]) /\ DrainWouldDelete(pods[n], lb)

\* the disruption controller has a status to write
Recomputable(pdb) ==
    /\ IsSomePdb(pdb)
    /\ pdb.observed_generation = pdb.generation
    /\ pdb.disruptions_allowed # Budget(pdb)

EnvDue ==
    \/ \E lb \in LiveInstances : stores[lb] # pdbs
    \/ \E name \in PdbNames :
          \/ Recomputable(pdbs[name])
          \/ IsSomePdb(pdbs[name])
             /\ pdbs[name].observed_generation < pdbs[name].generation

\* time passes when no reconcile is due and the reflector and the
\* disruption controller have caught up: they act within the tick
LiveTick ==
    /\ now < LiveHorizon
    /\ ~EnvDue
    /\ \A lb \in LiveInstances, n \in PodNames : ~EvictDue(lb, n) /\ ~DrainDue(lb, n)
    /\ now' = now + 1
    /\ UNCHANGED <<pod, calls, removed, hook, mu, pods, pdbs, stores, evicts, faults>>

\* the disruption controller recomputes the status: the budget is there again
DisruptionControllerRecomputes ==
    /\ \E name \in PdbNames :
          /\ Recomputable(pdbs[name])
          /\ pdbs' = [pdbs EXCEPT ![name] =
                 [pdbs[name] EXCEPT !.disruptions_allowed = Budget(pdbs[name]),
                                    !.rv = pdbs[name].rv + 1]]
    /\ UNCHANGED <<now, pod, calls, removed, hook, mu, pods, stores, evicts, faults>>

\* the PUT is answered with an error other than 404 and 409
LiveReplaceStatusError(lb, n) ==
    /\ evicts[lb][n].pc = "put"
    /\ faults < MaxFaults
    /\ faults' = faults + 1
    /\ evicts' = [evicts EXCEPT ![lb][n] = EvictIdle]
    /\ UNCHANGED <<now, pod, calls, removed, hook, mu, pods, pdbs, stores>>

\* patch_to_drain or patch_to_evict_later returns an error
LivePatchError(lb, n) ==
    /\ evicts[lb][n].pc \in {"drain", "evict_later"}
    /\ faults < MaxFaults
    /\ faults' = faults + 1
    /\ evicts' = [evicts EXCEPT ![lb][n] = EvictIdle]
    /\ UNCHANGED <<now, pod, calls, removed, hook, mu, pods, pdbs, stores>>

\* src/controllers/drain.rs, reconcile and delete_pod on the pod named n
LiveDrainReconcile(lb, n) ==
    /\ DrainDue(lb, n)
    /\ pods' = [pods EXCEPT ![n] = NoPod]
    /\ removed' = [by |-> "drain_reconciler", lb |-> lb,
                   owner |-> am_i_pod_drain_controller(pods[n], lb),
                   delete_options |-> DrainDeleteOptions(pods[n])]
    /\ UNCHANGED <<now, pod, calls, hook, mu, pdbs, stores, evicts, faults>>

\* delete_pod returns an error (a 409 on its preconditions, a 5xx): the
\* error policy requeues the pod
LiveDeleteError(lb, n) ==
    /\ DrainDue(lb, n)
    /\ faults < MaxFaults
    /\ faults' = faults + 1
    /\ UNCHANGED <<now, pod, calls, removed, hook, mu, pods, pdbs, stores, evicts>>

\* a user deletes the PodDisruptionBudget, while there is time left for
\* the waits of the two reconcilers
LivePdbDeleted ==
    /\ now <= Secs(CONTROLLER_EXCLUSIVE_DURATION)
    /\ PdbDeleted

\* the steps of the evict reconciler that no error answer is part of
EvictStep(lb, n) ==
    \/ EvictReconcile(lb, n)
    \/ ReplaceStatusOk(lb, n)
    \/ ReplaceStatusConflict(lb, n)
    \/ ReplaceStatusNotFound(lb, n)
    \/ PatchToDrain(lb, n)
    \/ PatchToEvictLater(lb, n)

LiveNext ==
    \/ LiveTick
    \/ \E lb \in LiveInstances, n \in PodNames :
          \/ EvictStep(lb, n)
          \/ LiveReplaceStatusError(lb, n)
          \/ LivePatchError(lb, n)
          \/ LiveDrainReconcile(lb, n)
          \/ LiveDeleteError(lb, n)
    \/ \E lb \in LiveInstances : StoreSync(lb)
    \/ DisruptionControllerObserves
    \/ DisruptionControllerRecomputes
    \/ LivePdbDeleted

\* the steps of the reconcilers up to the answer of the status write, and
\* the delete of the drain reconciler
Reconcilers ==
    \E lb \in LiveInstances, n \in PodNames :
        \/ EvictReconcile(lb, n)
        \/ ReplaceStatusOk(lb, n)
        \/ ReplaceStatusConflict(lb, n)
        \/ ReplaceStatusNotFound(lb, n)
        \/ LiveDrainReconcile(lb, n)

\* a reconcile of lb on n is about to patch the pod; the patch that follows
\* is possible, and changes the state, exactly then (PatchEnabled)
PatchDue(lb, n) == evicts[lb][n].pc \in {"drain", "evict_later"}

PatchStep(lb, n) == PatchToDrain(lb, n) \/ PatchToEvictLater(lb, n)

PatchEnabled ==
    \A lb \in LiveInstances, n \in PodNames :
        evicts[lb][n].pc = "evict_later"
            => mutate_to_evict_later(pods[n], evicts[lb][n].t, lb).tag # "Err"

\* the reflectors and the disruption controller
CatchUp ==
    \/ \E lb \in LiveInstances : StoreSync(lb)
    \/ DisruptionControllerObserves
    \/ DisruptionControllerRecomputes

\* the clock advances; the controller runtime runs a reconcile that is due
\* (Action::requeue, and the error policy after an error) and a reconcile
\* that runs goes on to its patch; the reflectors and the disruption
\* controller catch up.  The last conjunct is WF_vars(PatchStep(lb, n))
\* with ENABLED <<PatchStep(lb, n)>>_vars written as PatchDue(lb, n).
LiveFairness ==
    /\ WF_vars(LiveTick)
    /\ WF_vars(Reconcilers)
    /\ WF_vars(CatchUp)
    /\ \A lb \in LiveInstances, n \in PodNames :
          <>[]PatchDue(lb, n) => []<><<PatchStep(lb, n)>>_vars

SpecLive == LiveInit /\ [][LiveNext]_vars /\ LiveFairness

\* the PodDisruptionBudget of the pod named n permits a disruption: none
\* matches, or the one that matches has its generation observed and
\* disruptionsAllowed > 0
PdbPermits(n) ==
    LET answer == get_pdb(pdbs, pods[n]) IN
    \/ answer = OkNone
    \/ /\ answer.tag = "Some"
       /\ answer.v.observed_generation = answer.v.generation
       /\ answer.v.disruptions_allowed > 0

\* the pod named n is Evicting while there is time left for the waits of
\* the two reconcilers
EvictingInTime(n) ==
    /\ now <= Secs(CONTROLLER_EXCLUSIVE_DURATION)
    /\ IsSome(pods[n])
    /\ get_pod_draining_label_value(pods[n]) = OkSome(Evicting)

\* the pod named n is not Ready and its PodDisruptionBudget has no
\* unhealthyPodEvictionPolicy
UnhealthyWithoutPolicy(n) ==
    /\ ~is_pod_ready(pods[n])
    /\ get_pdb(pdbs, pods[n]).tag = "Some"
    /\ get_pdb(pdbs, pods[n]).v.unhealthy_pod_eviction_policy = "none"

(***************************************************************************)
(* C19: an Evicting pod whose PodDisruptionBudget permits a disruption (no *)
(* matching PodDisruptionBudget, or its generation observed and            *)
(* disruptionsAllowed > 0) is eventually patched to Draining by the evict  *)
(* reconciler and then deleted by the drain reconciler.                    *)
(***************************************************************************)
C19_EvictingEventuallyDeleted ==
    (EvictingInTime("pod-1") /\ PdbPermits("pod-1"))
        ~> (removed.by = "drain_reconciler")

\* what holds of the code: the same, for a pod that is Ready or whose
\* PodDisruptionBudget names an unhealthyPodEvictionPolicy
EvictingEventuallyDeletedUnlessUnhealthyWithoutPolicy ==
    (/\ EvictingInTime("pod-1") /\ PdbPermits("pod-1")
     /\ ~UnhealthyWithoutPolicy("pod-1"))
        ~> (removed.by = "drain_reconciler")

\* the pod p is Draining with a valid drain-timestamp and is not being deleted
DrainingValid(p) ==
    /\ IsSome(p)
    /\ ~p.deletionTimestamp
    /\ get_pod_draining_label_value(p) = OkSome(Draining)
    /\ get_pod_drain_timestamp(p).tag = "Some"

(***************************************************************************)
(* C20: a pod labeled Draining with a valid drain-timestamp and no         *)
(* deletionTimestamp is eventually deleted by the drain reconciler of a    *)
(* replica that keeps reconciling, also when the instance named in its     *)
(* controller annotation never acts; a replica that is not that instance   *)
(* deletes only after drain_timestamp + delete_after + 10 s + its jitter.  *)
(***************************************************************************)
C20_DrainingEventuallyDeleted ==
    /\ DrainingValid(pods["pod-1"]) ~> (removed.by = "drain_reconciler")
    /\ [][\A lb \in LiveInstances :
             (/\ DrainingValid(pods["pod-1"])
              /\ ~am_i_pod_drain_controller(pods["pod-1"], lb)
              /\ pods'["pod-1"] = NoPod)
                 => now > get_pod_drain_timestamp(pods["pod-1"]).v + delete_after
                          + Secs(CONTROLLER_EXCLUSIVE_DURATION)
                          + get_stable_jitter(pods["pod-1"], lb,
                                              Secs(CONTROLLER_TIMEOUT_JITTER))]_vars

\* the instance 2 has deleted a Draining pod of the instance 1, after an
\* error of its first DELETE
C20_Witness ==
    /\ removed.by = "drain_reconciler"
    /\ removed.lb = "instance-id-2"
    /\ ~removed.owner
    /\ faults > 0
    /\ pods["pod-1"] = NoPod

(***************************************************************************)
(* decrease_pod_disruption_budget as a function of the pod, the store and  *)
(* the instant, up to its request to the API server (SpecDecrease)         *)
(***************************************************************************)
\* k entries of disruptedPods of pods evicted before
DisruptedPodsOf(k) ==
    [name \in {"other-" \o ToString(i) : i \in 1..k} |-> to_rfc3339_opts(0 - Secs(1))]

ConditionChoices ==
    {NoCondition,
     [status |-> "True", reason |-> "SufficientPods",
      last_transition_time |-> to_rfc3339_opts(0 - Secs(1))],
     [status |-> "False", reason |-> "InsufficientPods",
      last_transition_time |-> to_rfc3339_opts(0 - Secs(1))]}

\* the status of "pdb-1": every disruptionsAllowed from -1 on, the
\* generation observed or not, the policies (one of them unknown), desired
\* healthy pods below, at and above the current ones
DecreasePdbs ==
    {[MakePdb("pdb-1", 1, policy, og, da, dh)
         EXCEPT !.condition = cond, !.disrupted_pods = dp] :
        policy \in UnhealthyPodEvictionPolicies \cup {"Unknown"},
        og \in {0, 1}, da \in (0 - 1)..(MaxDisruptionsAllowed + 1),
        dh \in {0, 1, Cardinality(PodNames) + 1},
        cond \in ConditionChoices,
        dp \in {EmptyMap, DisruptedPodsOf(1),
                "pod-1" :> to_rfc3339_opts(0 - Secs(1))}}

\* disruptedPods around MAX_DISRUPTED_POD_SIZE
FullPdbs ==
    {[MakePdb("pdb-1", 1, "none", 1, da, 1)
         EXCEPT !.disrupted_pods = DisruptedPodsOf(k) @@ own] :
        da \in 1..(MaxDisruptionsAllowed + 1),
        k \in {MAX_DISRUPTED_POD_SIZE - 1, MAX_DISRUPTED_POD_SIZE,
               MAX_DISRUPTED_POD_SIZE + 1},
        own \in {EmptyMap, "pod-1" :> to_rfc3339_opts(0 - Secs(1))}}

\* a second PodDisruptionBudget: one that selects the same pods, one of
\* another namespace, one that selects other pods
SecondPdbs ==
    LET second == MakePdb("pdb-2", 1, "none", 1, 1, 1) IN
    {second, [second EXCEPT !.namespace = "ns2"],
     [second EXCEPT !.selector = ("app" :> "other")]}

DecreaseStores ==
    {("pdb-1" :> b) @@ ("pdb-2" :> NoPdb) : b \in DecreasePdbs \cup FullPdbs}
    \cup {("pdb-1" :> b) @@ ("pdb-2" :> c) :
            b \in {NoPdb, MakePdb("pdb-1", 1, "none", 1, 1, 1),
                   [MakePdb("pdb-1", 1, "none", 1, 1, 1) EXCEPT !.namespace = "ns2"]},
            c \in SecondPdbs \cup {NoPdb}}

DecreaseInit ==
    /\ now = 0
    /\ pod = NoPod
    /\ calls = [c \in CallIds |-> CallIdle]
    /\ removed = NotRemoved
    /\ hook = HookIdle
    /\ NoEvicts
    /\ \E ready \in BOOLEAN, s \in DecreaseStores, t \in {0, 1} :
          mu = [pc |-> "in", fn |-> "decrease_pod_disruption_budget",
                pod |-> EvictingPod("pod-1", EmptyMap, ready),
                pod_name |-> "pod-1", store |-> s, t |-> t]

\* decrease_pod_disruption_budget up to the PUT
DecreaseBegin ==
    /\ mu.pc = "in"
    /\ mu' = [mu EXCEPT !.pc = "out"] @@
             [out |-> decrease_begin(mu.pod, mu.pod_name, mu.store, mu.t)]
    /\ UNCHANGED <<now, pod, calls, removed, hook, pods, pdbs, stores, evicts, faults>>

DecreaseNext == DecreaseBegin

SpecDecrease == DecreaseInit /\ [][DecreaseNext]_vars

\* the decrement succeeded: the PUT is about to be sent
Decreased == mu.pc = "out" /\ mu.out.step = "put"

\* the PodDisruptionBudget the decrementer read
ReadPdb == get_pdb(mu.store, mu.pod).v

(***************************************************************************)
(* C26: after a successful decrement the status to be written carries a    *)
(* DisruptionAllowed condition that is False with reason InsufficientPods  *)
(* when the new disruptionsAllowed is 0; when the new disruptionsAllowed   *)
(* is greater than 0 the condition is the one that was read, whatever it   *)
(* is.                                                                     *)
(***************************************************************************)
C26_ConditionAtZeroElseKept ==
    Decreased =>
        /\ mu.out.request.disruptions_allowed = 0
               => /\ mu.out.request.condition.status = "False"
                  /\ mu.out.request.condition.reason = "InsufficientPods"
        /\ mu.out.request.disruptions_allowed > 0
               => mu.out.request.condition = ReadPdb.condition

\* the last disruption was taken from a PodDisruptionBudget whose condition
\* was True: the condition turns False at the instant of the decrement
C26_Witness ==
    /\ Decreased
    /\ mu.out.request.disruptions_allowed = 0
    /\ ReadPdb.condition.status = "True"
    /\ mu.out.request.condition =
           [status |-> "False", reason |-> "InsufficientPods",
            last_transition_time |-> to_rfc3339_opts(mu.t)]

\* C26 as stated: True with reason SufficientPods whenever the new
\* disruptionsAllowed is greater than 0
C26_ConditionFollowsBudget ==
    Decreased =>
        /\ mu.out.request.disruptions_allowed = 0
               => /\ mu.out.request.condition.status = "False"
                  /\ mu.out.request.condition.reason = "InsufficientPods"
        /\ mu.out.request.disruptions_allowed > 0
               => /\ mu.out.request.condition.status = "True"
                  /\ mu.out.request.condition.reason = "SufficientPods"

C28_DecrementByOne ==
    Decreased =>
        /\ mu.out.request.disruptions_allowed = ReadPdb.disruptions_allowed - 1
        /\ mu.out.request.disrupted_pods =
               MapInsert(ReadPdb.disrupted_pods, mu.pod_name, to_rfc3339_opts(mu.t))
        /\ [mu.out.request EXCEPT !.disruptions_allowed = 0,
                                  !.disrupted_pods = EmptyMap,
                                  !.condition = NoCondition]
           = [ReadPdb EXCEPT !.disruptions_allowed = 0,
                             !.disrupted_pods = EmptyMap,
                             !.condition = NoCondition]

\* the pod was in disruptedPods from an earlier decrement, beside another
\* pod: its entry is replaced, the other one kept
C28_Witness ==
    /\ Decreased
    /\ mu.pod_name \in DOMAIN ReadPdb.disrupted_pods
    /\ ReadPdb.disrupted_pods[mu.pod_name] # to_rfc3339_opts(mu.t)
    /\ Cardinality(DOMAIN ReadPdb.disrupted_pods) > 1
    /\ ReadPdb.disruptions_allowed > 1

\* the checks of check_and_decrease_impl pass on the PodDisruptionBudget
PassesBudget(pdb) ==
    /\ pdb.observed_generation >= pdb.generation
    /\ pdb.disruptions_allowed > 0
    /\ Cardinality(DOMAIN pdb.disrupted_pods) <= MAX_DISRUPTED_POD_SIZE

\* the budget decided: a decrement to be written, or a refusal
BudgetEnforced ==
    IF PassesBudget(ReadPdb) THEN mu.out.step = "put"
    ELSE mu.out.step \in {"too_many_requests", "err"}

\* Ok(()) without a decrement, by the unhealthyPodEvictionPolicy
PermittedByPolicy == mu.out = [step |-> "ok", how |-> "policy"]

(***************************************************************************)
(* C30: for a pod that is not Ready, AlwaysAllow permits the eviction      *)
(* without a decrement; IfHealthyBudget permits it without a decrement     *)
(* exactly when currentHealthy >= desiredHealthy and desiredHealthy > 0    *)
(* and enforces the budget otherwise; any other policy, or none, fails     *)
(* with NotMyFault.  For a Ready pod the budget is enforced whatever the   *)
(* policy.                                                                 *)
(***************************************************************************)
C30_UnhealthyPodEvictionPolicy ==
    (mu.pc = "out" /\ get_pdb(mu.store, mu.pod).tag = "Some") =>
        IF is_pod_ready(mu.pod) THEN BudgetEnforced
        ELSE IF ReadPdb.unhealthy_pod_eviction_policy = "AlwaysAllow"
        THEN PermittedByPolicy
        ELSE IF ReadPdb.unhealthy_pod_eviction_policy = "IfHealthyBudget"
        THEN IF /\ ReadPdb.current_healthy >= ReadPdb.desired_healthy
                /\ ReadPdb.desired_healthy > 0
             THEN PermittedByPolicy
             ELSE BudgetEnforced
        ELSE mu.out = [step |-> "err", err |-> "NotMyFault"]

\* a pod that is not Ready under IfHealthyBudget with no healthy pod
\* desired: the budget is enforced, and refuses
C30_Witness ==
    /\ mu.pc = "out"
    /\ ~is_pod_ready(mu.pod)
    /\ get_pdb(mu.store, mu.pod).tag = "Some"
    /\ ReadPdb.unhealthy_pod_eviction_policy = "IfHealthyBudget"
    /\ ReadPdb.desired_healthy = 0
    /\ ReadPdb.disruptions_allowed = 0
    /\ mu.out.step = "too_many_requests"

(***************************************************************************)
(* Claims on the PodDisruptionBudgets that select a pod (SpecPdb)          *)
(***************************************************************************)
\* the names of the PodDisruptionBudgets of the store s that are in the
\* namespace of the pod p and whose selector matches its labels
SelectingPdbs(s, p) ==
    {name \in PdbNames :
        /\ IsSomePdb(s[name])
        /\ s[name].namespace = PodNamespace
        /\ \A key \in DOMAIN s[name].selector :
              key \in DOMAIN p.labels /\ p.labels[key] = s[name].selector[key]}

(***************************************************************************)
(* C29: a reconcile that finds more than one PodDisruptionBudget of the    *)
(* pod's namespace selecting the pod fails: it sends no status write and   *)
(* does not go on to patch the pod; one that finds none, those of other    *)
(* namespaces not counted, goes on to patch the pod to Draining without a  *)
(* status write.                                                           *)
(***************************************************************************)
C29_SelectingPdbs ==
    [][\A lb \in Instances, n \in PodNames :
          (/\ evicts[lb][n].pc = "idle" /\ IsSome(pods[n]))
              => /\ Cardinality(SelectingPdbs(stores[lb], pods[n])) > 1
                       => evicts'[lb][n].pc = "idle"
                 /\ (/\ SelectingPdbs(stores[lb], pods[n]) = {}
                     /\ evicts'[lb][n].pc # "idle")
                       => evicts'[lb][n] = [pc |-> "drain", how |-> "no_pdb"]]_vars

\* a reconcile goes on to patch the pod while the only PodDisruptionBudget
\* selecting its labels, one without a budget, is in another namespace
C29_Witness ==
    \E lb \in Instances, n \in PodNames :
        /\ evicts[lb][n] = [pc |-> "drain", how |-> "no_pdb"]
        /\ IsSomePdb(stores[lb]["pdb-1"])
        /\ stores[lb]["pdb-1"].namespace # PodNamespace
        /\ stores[lb]["pdb-1"].disruptions_allowed = 0
        /\ pdbs = stores[lb]

(***************************************************************************)
(* src/patch/eviction_admission.rs: the patch of an intercepted Eviction   *)
(* (SpecEvictionPatch).  A JSON document is a function from paths to      *)
(* nodes; a path is a sequence of member names and array indexes.          *)
(***************************************************************************)
JsonObject == [t |-> "object"]
JsonArray == [t |-> "array"]
JsonString(str) == [t |-> "string", s |-> str]

\* the longest dryRun of an Eviction of the model
MaxDryRun == 3

IsPrefix(p, q) == Len(p) <= Len(q) /\ SubSeq(q, 1, Len(p)) = p

\* the document at path p of the document d
JsonAt(d, p) ==
    [q \in {SubSeq(r, Len(p) + 1, Len(r)) : r \in {r \in DOMAIN d : IsPrefix(p, r)}}
        |-> d[p \o q]]

\* the document d with the document v put at path p
JsonPut(d, p, v) ==
    [q \in {r \in DOMAIN d : ~IsPrefix(p, r)} \cup {p \o r : r \in DOMAIN v}
        |-> IF IsPrefix(p, q) THEN v[SubSeq(q, Len(p) + 1, Len(q))] ELSE d[q]]

JsonWithout(d, p) == [q \in {r \in DOMAIN d : ~IsPrefix(p, r)} |-> d[q]]

JsonKeys(d, p) == {q[Len(q)] : q \in {r \in DOMAIN d : Len(r) = Len(p) + 1 /\ IsPrefix(p, r)}}

JsonLen(d, p) == Cardinality(JsonKeys(d, p))

IndexOf(key) == CHOOSE i \in 0..(MaxDryRun + 1) : ToString(i) = key

\* serde_json::to_value of a Vec<String>
VecToValue(vec) ==
    [q \in {<< >>} \cup {<<ToString(i - 1)>> : i \in 1..Len(vec)}
        |-> IF q = << >> THEN JsonArray ELSE JsonString(vec[IndexOf(q[1]) + 1])]

\* serde_json::to_value of a struct: a field that is None is left out
FieldToValue(d, key, field, value) ==
    IF field.tag = "Some" THEN JsonPut(d, <<key>>, value) ELSE d

DeleteOptionsToValue(o) ==
    LET d0 == (<< >> :> JsonObject)
        d1 == FieldToValue(d0, "dryRun", o.dry_run,
                           IF o.dry_run.tag = "Some" THEN VecToValue(o.dry_run.v) ELSE d0)
        d2 == FieldToValue(d1, "gracePeriodSeconds", o.grace_period_seconds,
                           IF o.grace_period_seconds.tag = "Some"
                           THEN (<< >> :> JsonString(o.grace_period_seconds.v)) ELSE d0)
    IN FieldToValue(d2, "propagationPolicy", o.propagation_policy,
                    IF o.propagation_policy.tag = "Some"
                    THEN (<< >> :> JsonString(o.propagation_policy.v)) ELSE d0)

EvictionToValue(e) ==
    LET d0 == (<< >> :> JsonObject) @@ (<<"apiVersion">> :> JsonString("policy/v1"))
              @@ (<<"kind">> :> JsonString("Eviction"))
              @@ (<<"metadata">> :> JsonObject)
        d1 == IF e.name.tag = "Some"
              THEN d0 @@ (<<"metadata", "name">> :> JsonString(e.name.v))
              ELSE d0
    IN FieldToValue(d1, "deleteOptions", e.delete_options,
                    IF e.delete_options.tag = "Some"
                    THEN DeleteOptionsToValue(e.delete_options.v) ELSE d0)

\* the elements of a finite set of member names, one after the other
RECURSIVE KeysToSeq(_)
KeysToSeq(keys) ==
    IF keys = {} THEN << >>
    ELSE LET k == CHOOSE k \in keys : TRUE IN <<k>> \o KeysToSeq(keys \ {k})

\* json_patch::diff: members removed, added and changed of two objects;
\* the elements of two arrays index by index, then the elements left over
\* of the longer one, removed (the index shifted by the elements removed
\* before) or added
RECURSIVE JsonDiff(_, _, _)
RECURSIVE JsonDiffMembers(_, _, _, _)
RECURSIVE JsonDiffElements(_, _, _, _)
JsonDiff(a, b, p) ==
    IF JsonAt(a, p) = JsonAt(b, p) THEN << >>
    ELSE IF a[p] = JsonObject /\ b[p] = JsonObject
    THEN JsonDiffMembers(a, b, p, KeysToSeq(JsonKeys(a, p) \cup JsonKeys(b, p)))
    ELSE IF a[p] = JsonArray /\ b[p] = JsonArray
    THEN JsonDiffElements(a, b, p, 0)
    ELSE <<[op |-> "replace", path |-> p, value |-> JsonAt(b, p)]>>

JsonDiffMembers(a, b, p, keys) ==
    IF keys = << >> THEN << >>
    ELSE LET k == Head(keys) IN
         (IF k \notin JsonKeys(b, p)
          THEN <<[op |-> "remove", path |-> p \o <<k>>]>>
          ELSE IF k \notin JsonKeys(a, p)
          THEN <<[op |-> "add", path |-> p \o <<k>>, value |-> JsonAt(b, p \o <<k>>)]>>
          ELSE JsonDiff(a, b, p \o <<k>>))
         \o JsonDiffMembers(a, b, p, Tail(keys))

JsonDiffElements(a, b, p, i) ==
    IF i >= JsonLen(a, p) /\ i >= JsonLen(b, p) THEN << >>
    ELSE (IF i >= JsonLen(b, p)
          THEN <<[op |-> "remove", path |-> p \o <<ToString(JsonLen(b, p))>>]>>
          ELSE IF i >= JsonLen(a, p)
          THEN <<[op |-> "add", path |-> p \o <<ToString(i)>>,
                  value |-> JsonAt(b, p \o <<ToString(i)>>)]>>
          ELSE JsonDiff(a, b, p \o <<ToString(i)>>))
         \o JsonDiffElements(a, b, p, i + 1)

JsonError == (<< >> :> [t |-> "error"])

Parent(p) == SubSeq(p, 1, Len(p) - 1)

\* the array at path p of d with its elements from index i on moved by delta
ShiftElements(d, p, i, delta) ==
    LET Moves(q) == /\ IsPrefix(p, q) /\ Len(q) > Len(p)
                    /\ IndexOf(q[Len(p) + 1]) >= i
        Moved(q, by) == p \o <<ToString(IndexOf(q[Len(p) + 1]) + by)>>
                          \o SubSeq(q, Len(p) + 2, Len(q))
    IN [q \in {r \in DOMAIN d : ~Moves(r)} \cup {Moved(r, delta) : r \in {r \in DOMAIN d : Moves(r)}}
          |-> IF /\ IsPrefix(p, q) /\ Len(q) > Len(p)
                 /\ IndexOf(q[Len(p) + 1]) >= i + delta
              THEN d[Moved(q, 0 - delta)]
              ELSE d[q]]

\* json_patch::patch, one operation (RFC 6902)
JsonApplyOp(d, o) ==
    IF d = JsonError \/ o.path = << >> \/ Parent(o.path) \notin DOMAIN d THEN JsonError
    ELSE LET parent == Parent(o.path)
             key == o.path[Len(o.path)]
         IN
         IF d[parent] = JsonObject
         THEN IF o.op = "add" THEN JsonPut(d, o.path, o.value)
              ELSE IF o.path \notin DOMAIN d THEN JsonError
              ELSE IF o.op = "remove" THEN JsonWithout(d, o.path)
              ELSE JsonPut(d, o.path, o.value)
         ELSE IF d[parent] = JsonArray
         THEN IF o.op = "add"
              THEN IF IndexOf(key) > JsonLen(d, parent) THEN JsonError
                   ELSE JsonPut(ShiftElements(d, parent, IndexOf(key), 1), o.path, o.value)
              ELSE IF o.path \notin DOMAIN d THEN JsonError
              ELSE IF o.op = "remove"
              THEN ShiftElements(JsonWithout(d, o.path), parent, IndexOf(key) + 1, 0 - 1)
              ELSE JsonPut(d, o.path, o.value)
         ELSE JsonError

RECURSIVE JsonApply(_, _)
JsonApply(d, patch) ==
    IF patch = << >> THEN d ELSE JsonApply(JsonApplyOp(d, Head(patch)), Tail(patch))

\* DeleteOptions::default(), the fields of the model
EvictionDeleteOptionsDefault ==
    [dry_run |-> OkNone, grace_period_seconds |-> OkNone, propagation_policy |-> OkNone]

\* The other delete options replaced by their defaults (a plausible slip).
set_dry_run_DropsOptions(e) ==
    [e EXCEPT !.delete_options =
        OkSome([EvictionDeleteOptionsDefault EXCEPT !.dry_run = OkSome(<<"All">>)])]

set_dry_run(e) ==
    LET delete_options == IF e.delete_options.tag = "Some" THEN e.delete_options.v
                          ELSE EvictionDeleteOptionsDefault
    IN [e EXCEPT !.delete_options =
           OkSome([delete_options EXCEPT !.dry_run = OkSome(<<"All">>)])]

make_patch_eviction_to_dry_run(e) ==
    JsonDiff(EvictionToValue(e), EvictionToValue(set_dry_run(e)), << >>)

DryRunChoices ==
    {OkNone, OkSome(<< >>), OkSome(<<"All">>), OkSome(<<"Other">>),
     OkSome(<<"All", "Other">>), OkSome(<<"Other", "All">>),
     OkSome(<<"Other", "Other", "All">>)}

Evictions ==
    [name : {OkNone, OkSome("pod-1")},
     delete_options : {OkNone} \cup
        {OkSome(o) : o \in [dry_run : {c \in DryRunChoices :
                                          c.tag = "None" \/ Len(c.v) <= MaxDryRun},
                            grace_period_seconds : {OkNone, OkSome("0"), OkSome("30")},
                            propagation_policy : {OkNone, OkSome("Foreground")}]}]

EvictionPatchInit ==
    /\ now = 0
    /\ pod = NoPod
    /\ calls = [c \in CallIds |-> CallIdle]
    /\ removed = NotRemoved
    /\ hook = HookIdle
    /\ NoEvicts
    /\ \E e \in Evictions :
          mu = [pc |-> "in", fn |-> "make_patch_eviction_to_dry_run", eviction |-> e]

\* the webhook computes the patch; the API server applies it to the
\* Eviction of the request
EvictionPatch ==
    /\ mu.pc = "in"
    /\ LET patch == make_patch_eviction_to_dry_run(mu.eviction) IN
       mu' = [mu EXCEPT !.pc = "out"] @@
             [patch |-> patch, applied |-> JsonApply(EvictionToValue(mu.eviction), patch)]
    /\ UNCHANGED <<now, pod, calls, removed, hook, pods, pdbs, stores, evicts, faults>>

EvictionPatchNext == EvictionPatch

SpecEvictionPatch == EvictionPatchInit /\ [][EvictionPatchNext]_vars

DryRunPath == <<"deleteOptions", "dryRun">>

(***************************************************************************)
(* C23: for every Eviction (deleteOptions absent, dryRun absent, empty, or *)
(* holding values), the Eviction with the intercept patch applied has      *)
(* deleteOptions.dryRun = ["All"] and every other field as it was.         *)
(***************************************************************************)
C23_DryRunAll ==
    mu.pc = "out" =>
        /\ JsonAt(mu.applied, DryRunPath) = VecToValue(<<"All">>)
        /\ mu.applied[<<"deleteOptions">>] = JsonObject
        /\ \A q \in DOMAIN mu.applied \cup DOMAIN EvictionToValue(mu.eviction) :
              (~IsPrefix(DryRunPath, q) /\ q # <<"deleteOptions">>)
                  => /\ q \in DOMAIN mu.applied
                     /\ q \in DOMAIN EvictionToValue(mu.eviction)
                     /\ mu.applied[q] = EvictionToValue(mu.eviction)[q]

\* a dryRun of three values, none of them first "All", beside a grace
\* period: one element is replaced, two are removed
C23_Witness ==
    /\ mu.pc = "out"
    /\ mu.eviction.delete_options.tag = "Some"
    /\ mu.eviction.delete_options.v.dry_run = OkSome(<<"Other", "Other", "All">>)
    /\ mu.eviction.delete_options.v.grace_period_seconds = OkSome("30")
    /\ Len(mu.patch) = 3
    /\ mu.applied[<<"deleteOptions", "gracePeriodSeconds">>] = JsonString("30")

(***************************************************************************)
(* src/controllers/utils.rs: get_stable_jitter called again and again, by  *)
(* processes that restart (SpecJitter).  A process has a random state of   *)
(* its own (the keys of RandomState, the seed of the thread's generator),  *)
(* which DefaultHasher::default() and StdRng::seed_from_u64 do not read.   *)
(***************************************************************************)
\* the calls recorded: one by each replica and one repeated (the property is
\* about pairs of calls); the random states a process may have
MaxJitterCalls == Cardinality(Instances) + 1
MaxRandomState == 2

JitterNamespaces == {<< >>, PodNamespaceBytes}
JitterNames == {<<112>>, PodNameBytes}

\* The hash keyed by the random state of the process, as with RandomState
\* (a plausible slip).
StableJitterCall_RandomState(instance_id, namespace, name) ==
    (get_stable_jitter_impl(instance_id, namespace, name, Secs(CONTROLLER_TIMEOUT_JITTER))
        + mu.random_state) % Secs(CONTROLLER_TIMEOUT_JITTER)

\* get_stable_jitter with the range of the reconcilers
StableJitterCall(instance_id, namespace, name) ==
    get_stable_jitter_impl(instance_id, namespace, name, Secs(CONTROLLER_TIMEOUT_JITTER))

JitterInit ==
    /\ now = 0
    /\ pod = NoPod
    /\ calls = [c \in CallIds |-> CallIdle]
    /\ removed = NotRemoved
    /\ hook = HookIdle
    /\ NoEvicts
    /\ mu = [pc |-> "jitter", random_state |-> 0, results |-> << >>]

\* a reconciler of the replica lb computes its jitter for a pod
JitterCall(lb, namespace, name) ==
    /\ mu.pc = "jitter"
    /\ Len(mu.results) < MaxJitterCalls
    /\ mu' = [mu EXCEPT !.results =
                 Append(@, [instance_id |-> lb, namespace |-> namespace, name |-> name,
                            random_state |-> mu.random_state,
                            jitter |-> StableJitterCall(lb, namespace, name)])]
    /\ UNCHANGED <<now, pod, calls, removed, hook, pods, pdbs, stores, evicts, faults>>

\* the process restarts: its random state is another one
JitterRestart ==
    /\ mu.pc = "jitter"
    /\ \E k \in 0..MaxRandomState :
          /\ k # mu.random_state
          /\ mu' = [mu EXCEPT !.random_state = k]
    /\ UNCHANGED <<now, pod, calls, removed, hook, pods, pdbs, stores, evicts, faults>>

JitterNext ==
    \/ \E lb \in Instances, namespace \in JitterNamespaces, name \in JitterNames :
          JitterCall(lb, namespace, name)
    \/ JitterRestart

SpecJitter == JitterInit /\ [][JitterNext]_vars

STATUS_CODE_404_NOT_FOUND == 404
STATUS_CODE_408_TIMEOUT == 408
STATUS_CODE_409_CONFLICT == 409
STATUS_CODE_410_GONE == 410
STATUS_CODE_422_UNPROCESSABLE_ENTITY == 422
STATUS_CODE_429_TOO_MANY_REQUESTS == 429
STATUS_CODE_500_INTERNAL_SERVER_ERROR == 500
STATUS_CODE_502_BAD_GATEWAY == 502
STATUS_CODE_503_SERVICE_UNAVAILABLE == 503
STATUS_CODE_504_GATEWAY_TIMEOUT == 504

\* src/controllers/drain.rs
DEFAULT_ERROR_RECONCILE == 10
DEFAULT_TRANSIENT_ERROR_RECONCILE == 5
DEFAULT_RECONCILE_DURATION == 3600

\* kube::Error: Error::Api(ErrorResponse { code, reason, message }), or an
\* error of the connection
ApiError(code, reason, message) ==
    [kind |-> "Api", code |-> code, reason |-> reason, message |-> message]
ConnectionError == [kind |-> "HyperError"]
JsonPatchTestMessage == "the server rejected our request due to an error in our request"

\* the codes error_codes.rs names, and 403 Forbidden, which it does not
StatusCodes ==
    {403, STATUS_CODE_404_NOT_FOUND, STATUS_CODE_408_TIMEOUT,
     STATUS_CODE_409_CONFLICT, STATUS_CODE_410_GONE,
     STATUS_CODE_422_UNPROCESSABLE_ENTITY, STATUS_CODE_429_TOO_MANY_REQUESTS,
     STATUS_CODE_500_INTERNAL_SERVER_ERROR, STATUS_CODE_502_BAD_GATEWAY,
     STATUS_CODE_503_SERVICE_UNAVAILABLE, STATUS_CODE_504_GATEWAY_TIMEOUT}

KubeErrors ==
    {ApiError(code, "Failure", "failure") : code \in StatusCodes}
    \cup {ApiError(STATUS_CODE_500_INTERNAL_SERVER_ERROR, "ServerTimeout", "timeout"),
          ApiError(STATUS_CODE_422_UNPROCESSABLE_ENTITY, "Invalid", JsonPatchTestMessage),
          ApiError(STATUS_CODE_404_NOT_FOUND, "NotFound", "pods not found"),
          ApiError(STATUS_CODE_410_GONE, "Expired", "too old resource version"),
          ApiError(STATUS_CODE_410_GONE, "Gone", "gone"),
          ConnectionError}

\* A classification that takes 410 for 404 (a plausible slip).
is_404_not_found_error_OrGone(err) ==
    /\ err.kind = "Api"
    /\ err.code \in {STATUS_CODE_404_NOT_FOUND, STATUS_CODE_410_GONE}

is_404_not_found_error(err) ==
    /\ err.kind = "Api"
    /\ err.code = STATUS_CODE_404_NOT_FOUND

is_409_conflict_error(err) ==
    /\ err.kind = "Api"
    /\ err.code = STATUS_CODE_409_CONFLICT

is_422_invalid_for_json_patch_test_error(err) ==
    /\ err.kind = "Api"
    /\ err.code = STATUS_CODE_422_UNPROCESSABLE_ENTITY
    /\ err.message = JsonPatchTestMessage

is_transient_error(err) ==
    /\ err.kind = "Api"
    /\ \/ err.code \in {STATUS_CODE_408_TIMEOUT, STATUS_CODE_429_TOO_MANY_REQUESTS,
                        STATUS_CODE_502_BAD_GATEWAY, STATUS_CODE_503_SERVICE_UNAVAILABLE,
                        STATUS_CODE_504_GATEWAY_TIMEOUT}
       \/ /\ err.code = STATUS_CODE_500_INTERNAL_SERVER_ERROR
          /\ err.reason = "ServerTimeout"

\* src/controllers/drain.rs, error_policy: the requeue after an error
drain_error_policy(err) ==
    IF is_409_conflict_error(err) THEN Secs(CONTROLLER_EXCLUSIVE_DURATION)
    ELSE IF is_transient_error(err) THEN Secs(DEFAULT_TRANSIENT_ERROR_RECONCILE)
    ELSE Secs(DEFAULT_ERROR_RECONCILE)

\* how many PATCH requests one patch() call of the model sends: more than
\* one and BACKOFF_MAX_TIMES retries
MaxPatchRequests == 7

AnsweredOk == [kind |-> "Ok"]
NotAnswered == [to |-> "none"]
Answer(to, response) == [to |-> to, response |-> response]

\* the pod patch_to_drain is called with; the Draining pod the reconciler deletes
GonePatchPod == MakePod("uid-1", 1, "app" :> "test", EmptyMap)
GoneDeletePod ==
    MakePod("uid-1", 1, Label(DRAINING_LABEL_VALUE__DRAINING),
            DrainTimestampValid @@ ControllerOne)

GoneInit ==
    /\ now = 0
    /\ pod = NoPod
    /\ calls = [c \in CallIds |-> CallIdle]
    /\ removed = NotRemoved
    /\ hook = HookIdle
    /\ NoEvicts
    /\ \/ mu = [pc |-> "loop", op |-> "patch", last_known |-> GonePatchPod,
                backoff |-> BACKOFF_MAX_TIMES, sent |-> 0, last |-> NotAnswered,
                transient |-> 0, get_failed |-> FALSE]
       \/ mu = [pc |-> "delete", op |-> "delete", last_known |-> GoneDeletePod,
                backoff |-> 0, sent |-> 0, last |-> NotAnswered,
                transient |-> 0, get_failed |-> FALSE]

GoneUnchanged == UNCHANGED <<now, pod, calls, removed, hook, pods, pdbs, stores, evicts, faults>>

GoneMutate == mutate_to_drain(mu.last_known, now, "instance-id-1", TRUE)
GoneReturn(st, result) ==
    [pc |-> "returned", op |-> st.op, last |-> st.last, sent |-> st.sent,
     backoff |-> st.backoff, transient |-> st.transient, get_failed |-> st.get_failed,
     result |-> result]

\* patch(): the closure is called with patcher.get(); DesiredState is
\* returned, RequirePatch goes to try_patch
PatchLoop ==
    /\ mu.pc = "loop"
    /\ LET m == GoneMutate IN
       mu' = IF m.tag = "DesiredState" THEN GoneReturn(mu, [tag |-> "Ok", v |-> m.outcome])
             ELSE IF m.tag = "Err" THEN GoneReturn(mu, [tag |-> "Err", err |-> m.err])
             ELSE [mu EXCEPT !.pc = "try_patch"]
    /\ GoneUnchanged

\* try_patch: the PATCH is sent and answered
TryPatchAnswered(response) ==
    /\ mu.pc = "try_patch"
    /\ mu.sent < MaxPatchRequests
    /\ LET st == [mu EXCEPT !.sent = @ + 1, !.last = Answer("PATCH", response),
                            !.transient = IF response # AnsweredOk /\ is_transient_error(response)
                                          THEN @ + 1 ELSE @]
       IN
       mu' = IF response = AnsweredOk
             THEN [st EXCEPT !.pc = "loop",
                             !.last_known = [GoneMutate.pod EXCEPT !.rv = @ + 1]]
             ELSE IF is_404_not_found_error(response)
             THEN [st EXCEPT !.pc = "loop", !.last_known = NoPod]
             ELSE IF ~(\/ is_transient_error(response)
                       \/ is_422_invalid_for_json_patch_test_error(response)
                       \/ is_409_conflict_error(response))
             THEN GoneReturn(st, [tag |-> "Err", err |-> response])
             ELSE [st EXCEPT !.pc = "refresh"]
    /\ GoneUnchanged

\* what get_opt answers: the pod, another pod of the name, None, or an error
GetAnswers == {[kind |-> "Ok", v |-> v] : v \in {"same", "other_uid", "none"}} \cup KubeErrors

\* try_patch, 'refresh: the GET is sent and answered
RefreshAnswered(response) ==
    /\ mu.pc = "refresh"
    /\ LET st == [mu EXCEPT !.last = Answer("GET", response),
                            !.get_failed = @ \/ response.kind # "Ok"]
       IN
       mu' = IF response.kind = "Ok"
             THEN [st EXCEPT !.pc = "loop",
                             !.last_known = IF response.v = "same"
                                            THEN [mu.last_known EXCEPT !.rv = @ + 1]
                                            ELSE NoPod]
             ELSE IF is_404_not_found_error(response)
             THEN [st EXCEPT !.pc = "loop", !.last_known = NoPod]
             ELSE IF is_transient_error(response)
             THEN IF mu.backoff > 0
                  THEN [st EXCEPT !.backoff = @ - 1]
                  ELSE GoneReturn(st, [tag |-> "Err", err |-> response])
             ELSE GoneReturn(st, [tag |-> "Err", err |-> response])
    /\ GoneUnchanged

\* reconcile of the drain reconciler from delete_pod on: the DELETE is sent
\* and answered; an error goes to error_policy
DeleteAnswered(response) ==
    /\ mu.pc = "delete"
    /\ LET st == [mu EXCEPT !.sent = @ + 1, !.last = Answer("DELETE", response)] IN
       mu' = IF response = AnsweredOk \/ is_404_not_found_error(response)
             THEN GoneReturn(st, [tag |-> "Ok",
                                  requeue |-> Secs(DEFAULT_RECONCILE_DURATION)])
             ELSE GoneReturn(st, [tag |-> "Err", err |-> response,
                                  requeue |-> drain_error_policy(response)])
    /\ GoneUnchanged

GoneNext ==
    \/ PatchLoop
    \/ \E response \in {AnsweredOk} \cup KubeErrors : TryPatchAnswered(response)
    \/ \E response \in GetAnswers : RefreshAnswered(response)
    \/ \E response \in {AnsweredOk} \cup KubeErrors : DeleteAnswered(response)

SpecGone == GoneInit /\ [][GoneNext]_vars

\* the last answer was an error with this status code
LastAnswered(code) ==
    /\ mu.last.to # "none"
    /\ mu.last.response.kind = "Api"
    /\ mu.last.response.code = code

\* the operation that got the last answer counts as done, with no error and
\* no further request: the patcher holds no pod and patch() returns Gone, the
\* reconcile ends with Ok
TreatedAsSuccess ==
    IF mu.last.to = "DELETE"
    THEN mu.pc = "returned" /\ mu.result.tag = "Ok"
    ELSE \/ mu.pc = "loop" /\ mu.last_known = NoPod
         \/ mu.pc = "returned" /\ mu.result = [tag |-> "Ok", v |-> OutcomeGone]

\* the last answer is returned as the error of patch(), or of reconcile,
\* which is then run again after DEFAULT_ERROR_RECONCILE
SurfacedAsError ==
    /\ mu.pc = "returned"
    /\ mu.result.tag = "Err"
    /\ mu.result.err = mu.last.response
    /\ (mu.last.to = "DELETE" => mu.result.requeue = Secs(DEFAULT_ERROR_RECONCILE))

(***************************************************************************)
(* C25: a pod PATCH, the refresh GET after it, or the drain reconciler's   *)
(* DELETE that is answered 404 is treated as success: the patch outcome is *)
(* Gone, the reconcile completes without error, nothing is sent again.     *)
(* An answer of 410 is not: it is returned as an error, and the reconcile  *)
(* is requeued by error_policy.                                            *)
(***************************************************************************)
C25_NotFoundIsSuccess ==
    mu.pc \in {"loop", "try_patch", "refresh", "delete", "returned"} =>
        /\ LastAnswered(STATUS_CODE_404_NOT_FOUND) => TreatedAsSuccess
        /\ LastAnswered(STATUS_CODE_410_GONE) => SurfacedAsError

\* patch() has returned Gone after a GET answered 404 that followed a PATCH
\* answered with a conflict
C25_Witness ==
    /\ mu.pc = "returned"
    /\ mu.op = "patch"
    /\ mu.last = Answer("GET", ApiError(STATUS_CODE_404_NOT_FOUND, "NotFound", "pods not found"))
    /\ mu.result = [tag |-> "Ok", v |-> OutcomeGone]
    /\ mu.sent = 1

\* the claim as stated: 410 is treated as 404 is
C25_GoneIsSuccess ==
    (/\ mu.pc \in {"loop", "try_patch", "refresh", "delete", "returned"}
     /\ LastAnswered(STATUS_CODE_404_NOT_FOUND) \/ LastAnswered(STATUS_CODE_410_GONE))
        => TreatedAsSuccess

(***************************************************************************)
(* src/shutdown.rs and src/spawn_service.rs: the two stages of shutdown    *)
(* and the services spawned under them (SpecShutdown).  A stage is an      *)
(* async_shutdown::ShutdownManager: a trigger, and a count of delay tokens *)
(* that hold back its completion.                                          *)
(***************************************************************************)
\* the services of the model: the webhook server, which holds the
\* delay-drain token, and two that do not
Services == {"webhook", "controller", "certwatcher"}

NotSpawned == [inner |-> "spawned", token |-> FALSE, after |-> FALSE, exit |-> "none"]

\* ShutdownManager: wait_shutdown_complete resolves once the stage is
\* triggered and no delay token is left
StageComplete_TriggeredOnly(stage) == stage.triggered
StageComplete(stage) == stage.triggered /\ stage.tokens = 0

\* Shutdown::trigger_shutdown stopping at the drain stage (a plausible slip)
trigger_shutdown_DrainOnly(st) == [st EXCEPT !.drain.triggered = TRUE]

\* Shutdown::trigger_shutdown: both stages are triggered, drain first;
\* trigger_shutdown of a stage that is triggered already changes nothing
trigger_shutdown(st) ==
    [st EXCEPT !.drain.triggered = TRUE,
               !.shutdown.triggered = TRUE,
               !.shutdown.by = IF st.shutdown.triggered THEN @ ELSE "service",
               !.shutdown.held = IF st.shutdown.triggered THEN @ ELSE st.drain.tokens]

\* spawn_service, `wrapped`: the exit of a service whose task has ended
ServiceExit(inner, shutdown_triggered) ==
    IF inner = "returned"
    THEN IF shutdown_triggered THEN "GracefulShutdown" ELSE "EarlyStop"
    ELSE "Panic"

\* Shutdown::new and spawn_service for each service: nothing is triggered,
\* every service holds a delay-shutdown token (wrap_delay_shutdown), the
\* task of new_with_drain_signal awaits the signal.  shutdown.by and
\* shutdown.held record who triggered the shutdown stage and how many
\* delay-drain tokens were held then; svc[s].after records whether the
\* future of s ended after the shutdown stage was triggered.
ShutdownInit ==
    /\ now = 0
    /\ pod = NoPod
    /\ calls = [c \in CallIds |-> CallIdle]
    /\ removed = NotRemoved
    /\ hook = HookIdle
    /\ NoEvicts
    /\ mu = [pc |-> "shutdown",
             signal |-> "waiting",
             drain |-> [triggered |-> FALSE, tokens |-> 0],
             shutdown |-> [triggered |-> FALSE, tokens |-> Cardinality(Services),
                           by |-> "none", held |-> 0],
             svc |-> [s \in Services |-> NotSpawned]]

ShutdownUnchanged ==
    UNCHANGED <<now, pod, calls, removed, hook, pods, pdbs, stores, evicts, faults>>

\* the task of a service is polled for the first time; the webhook service
\* takes its delay-drain token, which the drain stage refuses once complete
ServiceStarts(s) ==
    /\ mu.pc = "shutdown"
    /\ mu.svc[s].inner = "spawned"
    /\ LET takes == s = "webhook" /\ ~StageComplete(mu.drain) IN
       mu' = [mu EXCEPT !.svc[s].inner = "running",
                        !.svc[s].token = takes,
                        !.drain.tokens = IF takes THEN @ + 1 ELSE @]
    /\ ShutdownUnchanged

\* the future of a service ends, by returning or by a panic: what it holds
\* is dropped, the delay-drain token with it
ServiceEnds(s, how) ==
    /\ mu.pc = "shutdown"
    /\ mu.svc[s].inner = "running"
    /\ mu' = [mu EXCEPT !.svc[s].inner = how,
                        !.svc[s].token = FALSE,
                        !.svc[s].after = mu.shutdown.triggered,
                        !.drain.tokens = IF mu.svc[s].token THEN @ - 1 ELSE @]
    /\ ShutdownUnchanged

\* A wrapper whose delay-shutdown token outlives it (a plausible slip: the
\* token taken apart from the future it is meant to wrap).
WrapperObserves_KeepsToken(s) ==
    /\ mu.pc = "shutdown"
    /\ mu.svc[s].inner \in {"returned", "panicked"}
    /\ mu.svc[s].exit = "none"
    /\ LET exit == ServiceExit(mu.svc[s].inner, mu.shutdown.triggered)
           st == IF exit = "GracefulShutdown" THEN mu ELSE trigger_shutdown(mu)
       IN mu' = [st EXCEPT !.svc[s].exit = exit]
    /\ ShutdownUnchanged

\* spawn_service, `wrapped`: the JoinHandle of the ended task resolves; the
\* exit is classified, an exit that is not graceful triggers the shutdown,
\* and the delay-shutdown token of the service is released
WrapperObserves(s) ==
    /\ mu.pc = "shutdown"
    /\ mu.svc[s].inner \in {"returned", "panicked"}
    /\ mu.svc[s].exit = "none"
    /\ LET exit == ServiceExit(mu.svc[s].inner, mu.shutdown.triggered)
           st == IF exit = "GracefulShutdown" THEN mu ELSE trigger_shutdown(mu)
       IN mu' = [st EXCEPT !.svc[s].exit = exit, !.shutdown.tokens = @ - 1]
    /\ ShutdownUnchanged

\* new_with_drain_signal: the signal arrives, the drain stage is triggered
TerminationSignal ==
    /\ mu.pc = "shutdown"
    /\ mu.signal = "waiting"
    /\ mu' = [mu EXCEPT !.signal = "drain_wait", !.drain.triggered = TRUE]
    /\ ShutdownUnchanged

\* new_with_drain_signal: the drain stage is complete, the shutdown stage
\* is triggered
SignalDrainComplete ==
    /\ mu.pc = "shutdown"
    /\ mu.signal = "drain_wait"
    /\ StageComplete(mu.drain)
    /\ mu' = [mu EXCEPT !.signal = "done",
                        !.shutdown.triggered = TRUE,
                        !.shutdown.by = IF mu.shutdown.triggered THEN @ ELSE "signal",
                        !.shutdown.held = IF mu.shutdown.triggered THEN @ ELSE mu.drain.tokens]
    /\ ShutdownUnchanged

ShutdownNext ==
    \/ \E s \in Services : ServiceStarts(s)
    \/ \E s \in Services, how \in {"returned", "panicked"} : ServiceEnds(s, how)
    \/ \E s \in Services : WrapperObserves(s)
    \/ TerminationSignal
    \/ SignalDrainComplete

SpecShutdown == ShutdownInit /\ [][ShutdownNext]_vars

(***************************************************************************)
(* C21: the shutdown stage is triggered only once the drain stage is       *)
(* triggered; when the termination signal starts it, only once the drain   *)
(* stage is complete, every delay-drain token released.  (A service that   *)
(* exits unexpectedly triggers both stages at once.)                       *)
(***************************************************************************)
C21_DrainBeforeShutdown ==
    (mu.pc = "shutdown" /\ mu.shutdown.triggered) =>
        /\ mu.drain.triggered
        /\ mu.shutdown.by = "signal" => mu.shutdown.held = 0

\* the signal came while the webhook server held its token, the server
\* stopped, and only then was the shutdown stage triggered
C21_Witness ==
    /\ mu.pc = "shutdown"
    /\ mu.shutdown.triggered
    /\ mu.shutdown.by = "signal"
    /\ mu.svc["webhook"].inner = "returned"
    /\ ~mu.svc["webhook"].after
    /\ mu.svc["webhook"].exit = "GracefulShutdown"
    /\ mu.svc["controller"].inner = "running"

\* the claim as stated: whoever triggers the shutdown stage, no delay-drain
\* token is held at that moment
C21_ShutdownAfterDrainComplete ==
    (mu.pc = "shutdown" /\ mu.shutdown.triggered) =>
        /\ mu.drain.triggered
        /\ mu.shutdown.held = 0

\* the wrapper of the service s has classified its exit
Exited(s) == mu.svc[s].exit # "none"

(***************************************************************************)
(* C22: a service whose exit is found while the shutdown is not triggered  *)
(* is EarlyStop (its future returned) or Panic (it panicked), and from     *)
(* then on both stages are triggered, for every service to see; a service  *)
(* whose future returned after the trigger is never EarlyStop.  The exit   *)
(* is GracefulShutdown exactly when the future returned and the shutdown   *)
(* was triggered by the time the wrapper looked, which includes a future   *)
(* that returned before another service triggered the shutdown.            *)
(***************************************************************************)
C22_UnexpectedExitTriggersShutdown ==
    mu.pc = "shutdown" =>
        \A s \in Services :
            /\ mu.svc[s].exit \in {"EarlyStop", "Panic"}
                  => mu.shutdown.triggered /\ mu.drain.triggered
            /\ mu.svc[s].exit = "Panic" <=> (Exited(s) /\ mu.svc[s].inner = "panicked")
            /\ mu.svc[s].exit = "EarlyStop"
                  => mu.svc[s].inner = "returned" /\ ~mu.svc[s].after
            /\ mu.svc[s].exit = "GracefulShutdown"
                  => mu.svc[s].inner = "returned" /\ mu.shutdown.triggered
            /\ (Exited(s) /\ mu.svc[s].inner = "returned" /\ mu.svc[s].after)
                  => mu.svc[s].exit = "GracefulShutdown"

\* the controller stopped early, the webhook server panicked after that,
\* and the certwatcher, still running, finds the shutdown triggered
C22_Witness ==
    /\ mu.pc = "shutdown"
    /\ mu.signal = "waiting"
    /\ mu.svc["controller"].exit = "EarlyStop"
    /\ mu.svc["webhook"].exit = "Panic"
    /\ mu.svc["webhook"].after
    /\ mu.svc["certwatcher"].inner = "running"
    /\ mu.shutdown.triggered

\* the claim as stated: the exit is GracefulShutdown exactly for the future
\* that returned after the shutdown was triggered
C22_GracefulIffReturnedAfterTrigger ==
    mu.pc = "shutdown" =>
        \A s \in Services :
            Exited(s) =>
                (mu.svc[s].exit = "GracefulShutdown"
                    <=> (mu.svc[s].inner = "returned" /\ mu.svc[s].after))

(***************************************************************************)
(* C31: within one patch() call, while every GET succeeds, the PATCH is    *)
(* answered with a transient error at most once and BACKOFF_MAX_TIMES      *)
(* times more: after five retries the call returns the error.              *)
(* (mu.transient counts the PATCH requests of the call that were answered  *)
(* with a transient error, mu.get_failed tells whether a GET of the call   *)
(* was answered with an error.)                                            *)
(***************************************************************************)
C31_PatchRetriesBounded ==
    (mu.pc \in {"loop", "try_patch", "refresh", "returned"} /\ mu.op = "patch"
     /\ ~mu.get_failed)
        => mu.transient <= BACKOFF_MAX_TIMES + 1

\* what the code bounds: the GET requests of 'refresh that are answered
\* with a transient error, by the backoff of the patcher
GetRetriesBounded ==
    (mu.pc \in {"loop", "try_patch", "refresh", "returned"} /\ mu.op = "patch")
        => /\ mu.backoff \in 0..BACKOFF_MAX_TIMES
           /\ ~mu.get_failed => mu.backoff = BACKOFF_MAX_TIMES

(***************************************************************************)
(* src/patch/resource_patch_util.rs: one patch() call against a pod that   *)
(* other writers modify a bounded number of times, the API server          *)
(* answering every request without transient errors (SpecConverge)         *)
(***************************************************************************)
\* how many times other writers modify the pod during the call
MaxOtherWrites == 2

\* the patch_to_* calls and the pods they are made with: patch_to_drain of
\* the webhook and patch_to_evict with any pod, patch_to_drain of the evict
\* reconciler and patch_to_evict_later with a pod labeled Evicting
ConvergeCalls ==
    {[kind |-> "drain", caller |-> "Webhook", t |-> 0, res |-> res] : res \in InitPods}
    \cup {[kind |-> "evict", caller |-> "Webhook", t |-> 0, res |-> res] : res \in InitPods}
    \cup {[kind |-> kc[1], caller |-> "Controller", t |-> kc[2], res |-> res] :
            kc \in {<<"drain", 0>>, <<"evict_later", 0>>, <<"evict_later", Secs(1)>>},
            res \in {p \in InitPods : get_pod_draining_label_value(p) = OkSome(Evicting)}}

\* mu.since counts the PATCH requests of the call since the pod was last
\* modified by another writer, mu.steps the steps of the call since then
ConvergeInit ==
    /\ now = 0
    /\ calls = [c \in CallIds |-> CallIdle]
    /\ removed = NotRemoved
    /\ hook = HookIdle
    /\ NoEvicts
    /\ \E call \in ConvergeCalls :
          /\ pod = call.res
          /\ mu = [pc |-> "loop", kind |-> call.kind, caller |-> call.caller,
                   lb |-> "instance-id-1", t |-> call.t, last_known |-> call.res,
                   writes |-> 0, since |-> 0, steps |-> 0, result |-> "none"]

ConvergeUnchanged == UNCHANGED <<now, calls, removed, hook, pods, pdbs, stores, evicts, faults>>

\* patch(): the closure is called with patcher.get()
ConvergeLoop ==
    /\ mu.pc = "loop"
    /\ LET m == CallMutate(mu) IN
       mu' = IF m.tag = "RequirePatch"
             THEN [mu EXCEPT !.pc = "try_patch", !.steps = @ + 1]
             ELSE [mu EXCEPT !.pc = "returned", !.steps = @ + 1, !.result = m]
    /\ pod' = pod
    /\ ConvergeUnchanged

\* try_patch: the PATCH is sent; the server applies it, or answers 404 for a
\* pod that is gone, or 422 for a failed test
ConvergePatch ==
    /\ mu.pc = "try_patch"
    /\ IF ~SendsPatch(mu)
       THEN /\ mu' = [mu EXCEPT !.pc = "returned", !.steps = @ + 1, !.result = MutateErr("Bug")]
            /\ pod' = pod
       ELSE IF ~IsSome(pod)
       THEN /\ mu' = [mu EXCEPT !.pc = "loop", !.last_known = NoPod,
                                !.since = @ + 1, !.steps = @ + 1]
            /\ pod' = pod
       ELSE LET r == ApplyPatch(pod, CallPatch(mu, CallMutate(mu).pod)) IN
            IF r.st = "ok"
            THEN /\ pod' = [r.pod EXCEPT !.rv = pod.rv + 1]
                 /\ mu' = [mu EXCEPT !.pc = "loop", !.last_known = pod',
                                     !.since = @ + 1, !.steps = @ + 1]
            ELSE /\ pod' = pod
                 /\ mu' = [mu EXCEPT !.pc = "refresh", !.since = @ + 1, !.steps = @ + 1]
    /\ ConvergeUnchanged

\* A refresh that takes whatever pod the GET returns, without comparing its
\* uid (a plausible slip).
ConvergeRefresh_NoUidCheck ==
    /\ mu.pc = "refresh"
    /\ mu' = [mu EXCEPT !.pc = "loop", !.steps = @ + 1,
                        !.last_known = IF ~IsSome(pod) THEN NoPod ELSE pod]
    /\ pod' = pod
    /\ ConvergeUnchanged

\* try_patch, 'refresh: the GET answers with the pod, or 404, or a pod of
\* another uid
ConvergeRefresh ==
    /\ mu.pc = "refresh"
    /\ mu' = [mu EXCEPT !.pc = "loop", !.steps = @ + 1,
                        !.last_known = IF ~IsSome(pod) THEN NoPod
                                       ELSE IF pod.uid # mu.last_known.uid THEN NoPod
                                       ELSE pod]
    /\ pod' = pod
    /\ ConvergeUnchanged

\* what another writer leaves of the stored pod p: a status update, the
\* patch of another replica's patch_to_drain or patch_to_evict, a delete, or
\* a delete followed by the creation of a pod of the same name
OtherWriteResults(p) ==
    LET drained == mutate_to_drain(p, now, "instance-id-2", TRUE)
        evicted == mutate_to_evict(p, now, "instance-id-2", SomeDeleteOptions)
    IN {[p EXCEPT !.rv = @ + 1], NoPod,
        MakePod("uid-2", p.rv + 1, "app" :> "test", EmptyMap)}
       \cup (IF drained.tag = "RequirePatch"
             THEN {[drained.pod EXCEPT !.rv = p.rv + 1]} ELSE {})
       \cup (IF evicted.tag = "RequirePatch"
             THEN {[evicted.pod EXCEPT !.rv = p.rv + 1]} ELSE {})

OtherWrite ==
    /\ mu.pc \in {"loop", "try_patch", "refresh"}
    /\ mu.writes < MaxOtherWrites
    /\ IsSome(pod)
    /\ pod.uid = "uid-1"
    /\ pod' \in OtherWriteResults(pod)
    /\ mu' = [mu EXCEPT !.writes = @ + 1, !.since = 0, !.steps = 0]
    /\ ConvergeUnchanged

ConvergeStep == ConvergeLoop \/ ConvergePatch \/ ConvergeRefresh

ConvergeNext == ConvergeStep \/ OtherWrite

SpecConverge == ConvergeInit /\ [][ConvergeNext]_vars

\* the call has returned what its closure returned as DesiredState
ReturnedDesired == mu.pc = "returned" /\ mu.result.tag = "DesiredState"

Decrements(pdb) == Budget(pdb) - pdb.disruptions_allowed

\* the PodDisruptionBudget of the pods, computed and decremented (not the
\* one that starts with a negative disruptionsAllowed)
Decremented(pdb) ==
    /\ IsSomePdb(pdb)
    /\ pdb.namespace = PodNamespace
    /\ pdb.disruptions_allowed >= 0
    /\ pdb.disrupted_pods # EmptyMap

\* the PUT of the reconcile of lb on the pod n is accepted in this step
PutAccepted(lb, n) ==
    /\ evicts[lb][n].pc = "put"
    /\ evicts'[lb][n] = [pc |-> "drain", how |-> "decrement"]
    /\ pdbs' # pdbs

(***************************************************************************)
(* C33: every change of disruptionsAllowed is the accepted status write of *)
(* one reconcile of one pod: it lowers disruptionsAllowed by one, not      *)
(* below 0, and enters that pod in disruptedPods, where a pod has one      *)
(* entry however many reconciles wrote it.  (A reconcile that runs again   *)
(* while the pod is still Evicting decrements again.)                      *)
(***************************************************************************)
C33_OneDecrementPerReconcile ==
    [][\A name \in PdbNames :
          (/\ IsSomePdb(pdbs[name]) /\ IsSomePdb(pdbs'[name])
           /\ pdbs'[name].disruptions_allowed # pdbs[name].disruptions_allowed)
              => /\ pdbs'[name].disruptions_allowed = pdbs[name].disruptions_allowed - 1
                 /\ pdbs'[name].disruptions_allowed >= 0
                 /\ \E lb \in Instances, n \in PodNames :
                       /\ PutAccepted(lb, n)
                       /\ evicts[lb][n].request.name = name
                       /\ n \in DOMAIN pdbs'[name].disrupted_pods
                       /\ DOMAIN pdbs'[name].disrupted_pods
                             = DOMAIN pdbs[name].disrupted_pods \cup {n}]_vars

\* two decrements have been made for the pod pod-1, which is still
\* Evicting, and none for pod-2
C33_Witness ==
    /\ Decremented(pdbs["pdb-1"])
    /\ Decrements(pdbs["pdb-1"]) = 2
    /\ DOMAIN pdbs["pdb-1"].disrupted_pods = {"pod-1"}
    /\ IsSome(pods["pod-1"])
    /\ get_pod_draining_label_value(pods["pod-1"]) = OkSome(Evicting)

\* the claim as stated: no more decrements than pods they were made for
C33_AtMostOncePerPod ==
    \A name \in PdbNames :
        Decremented(pdbs[name]) =>
            Decrements(pdbs[name]) <= Cardinality(DOMAIN pdbs[name].disrupted_pods)

(***************************************************************************)
(* src/controllers/drain.rs: reconcile and delete_pod of the replicas on   *)
(* the snapshot each holds in its store, and the API server answering the  *)
(* DELETE by its preconditions                                             *)
(***************************************************************************)
NoPreconditions == [uid |-> OkNone, resource_version |-> OkNone]

\* src/utils.rs, to_delete_params: the DeleteParams of the DeleteOptions
to_delete_params(delete_options) ==
    [dry_run |-> /\ "dryRun" \in DOMAIN delete_options
                 /\ "All" \in delete_options.dryRun,
     grace_period_seconds |-> delete_options.gracePeriodSeconds,
     preconditions |->
         IF "preconditions" \in DOMAIN delete_options
         THEN [uid |-> delete_options.preconditions.uid,
               resource_version |-> delete_options.preconditions.resourceVersion]
         ELSE NoPreconditions]

\* A delete_pod that keeps the preconditions the DeleteOptions came with
\* (a plausible slip).
delete_pod_request_KeepsStored(p, delete_options) ==
    LET delete_params == to_delete_params(delete_options) IN
    IF delete_params.preconditions # NoPreconditions THEN delete_params
    ELSE [delete_params EXCEPT
              !.preconditions = [uid |-> OkSome(p.uid), resource_version |-> OkSome(p.rv)]]

\* delete_pod: the DELETE it sends for the pod p
delete_pod_request(p, delete_options) ==
    [to_delete_params(delete_options) EXCEPT
         !.preconditions = [uid |-> OkSome(p.uid), resource_version |-> OkSome(p.rv)]]

\* A reconcile that does not look at the deletionTimestamp (a plausible
\* slip).
drain_reconcile_NoDeletionCheck(p, lb, now_) ==
    IF get_pod_draining_label_value(p) # OkSome(Draining)
    THEN [tag |-> "requeue", after |-> Secs(DEFAULT_RECONCILE_DURATION)]
    ELSE IF get_pod_drain_timestamp(p).tag # "Some"
    THEN [tag |-> "requeue", after |-> Secs(DEFAULT_RECONCILE_DURATION)]
    ELSE IF DrainNotBefore(p, lb) - now_ >= 0
    THEN [tag |-> "requeue", after |-> DrainNotBefore(p, lb) - now_]
    ELSE [tag |-> "delete", request |-> delete_pod_request(p, DrainDeleteOptions(p))]

\* reconcile up to its call of delete_pod: the requeue it returns, or the
\* DELETE it sends
drain_reconcile(p, lb, now_) ==
    IF p.deletionTimestamp
    THEN [tag |-> "requeue", after |-> Secs(DEFAULT_RECONCILE_DURATION)]
    ELSE IF get_pod_draining_label_value(p) # OkSome(Draining)
    THEN [tag |-> "requeue", after |-> Secs(DEFAULT_RECONCILE_DURATION)]
    ELSE IF get_pod_drain_timestamp(p).tag # "Some"
    THEN [tag |-> "requeue", after |-> Secs(DEFAULT_RECONCILE_DURATION)]
    ELSE IF DrainNotBefore(p, lb) - now_ >= 0
    THEN [tag |-> "requeue", after |-> DrainNotBefore(p, lb) - now_]
    ELSE [tag |-> "delete", request |-> delete_pod_request(p, DrainDeleteOptions(p))]

\* the API server: the preconditions of a DELETE hold of the stored pod
PreconditionsHold(p, preconditions) ==
    /\ preconditions.uid \in {OkNone, OkSome(p.uid)}
    /\ preconditions.resource_version \in {OkNone, OkSome(p.rv)}

\* DeleteOptions that came with preconditions: of an object and a version
\* long gone, or of the uid alone
StaleStoredDeleteOptions ==
    [gracePeriodSeconds |-> "30",
     preconditions |-> [uid |-> OkSome("uid-0"), resourceVersion |-> OkSome(0)]]
UidStoredDeleteOptions ==
    [gracePeriodSeconds |-> "30",
     preconditions |-> [uid |-> OkSome("uid-1"), resourceVersion |-> OkNone]]

\* the instant after every wait of both replicas for a drain that started
\* delete_after before 0
DrainDeleteNow == Secs(CONTROLLER_EXCLUSIVE_DURATION + CONTROLLER_TIMEOUT_JITTER) + 1

\* the pods the reconciler deletes, with the delete-options annotation absent,
\* malformed, plain or with preconditions
DrainDeleteDuePods ==
    {MakePod("uid-1", 1, Label(DRAINING_LABEL_VALUE__DRAINING),
             DrainTimestampValid @@ ControllerOne @@ a) :
        a \in DeleteOptionsChoices
              \cup {DELETE_OPTIONS_ANNOTATION_KEY :> [json |-> o] :
                       o \in {StaleStoredDeleteOptions, UidStoredDeleteOptions}}}

\* the pods the reconciler leaves alone: the label absent, Evicting or
\* invalid, the drain-timestamp absent or malformed, the pod terminating
DrainDeleteOtherPods ==
    {MakePod("uid-1", 1, l, DrainTimestampValid @@ ControllerOne) :
        l \in {EmptyMap, Label(DRAINING_LABEL_VALUE__EVICTING), Label("asdf")}}
    \cup
    {MakePod("uid-1", 1, Label(DRAINING_LABEL_VALUE__DRAINING), a @@ ControllerOne) :
        a \in {EmptyMap, DRAIN_TIMESTAMP_ANNOTATION_KEY :> [raw |-> "asdf"]}}
    \cup
    {[MakePod("uid-1", 1, Label(DRAINING_LABEL_VALUE__DRAINING),
              DrainTimestampValid @@ ControllerOne)
         EXCEPT !.deletionTimestamp = TRUE]}

NoDelete == [tag |-> "none"]
NotReconciled == [tag |-> "none"]

DrainDeleteInit ==
    /\ now \in {0, DrainDeleteNow}
    /\ pod \in DrainDeleteDuePods \cup DrainDeleteOtherPods
    /\ calls = [c \in CallIds |-> CallIdle]
    /\ removed = NotRemoved
    /\ hook = HookIdle
    /\ NoEvicts
    /\ mu = [pc |-> "drain_delete",
             store |-> [lb \in Instances |-> pod],
             request |-> [lb \in Instances |-> NoDelete],
             result |-> [lb \in Instances |-> NotReconciled],
             effective |-> 0]

DrainDeleteUnchanged == UNCHANGED <<now, calls, removed, hook, pods, pdbs, stores, evicts, faults>>

\* the reflector of lb catches up with the API server
DrainStoreSync(lb) ==
    /\ mu.pc = "drain_delete"
    /\ mu.store[lb] # pod
    /\ mu' = [mu EXCEPT !.store[lb] = pod]
    /\ pod' = pod
    /\ DrainDeleteUnchanged

\* another client writes the pod: its resourceVersion moves on
DrainOtherWrite ==
    /\ mu.pc = "drain_delete"
    /\ IsSome(pod)
    /\ pod.rv < MaxRv
    /\ pod' = [pod EXCEPT !.rv = pod.rv + 1]
    /\ mu' = mu
    /\ DrainDeleteUnchanged

\* reconcile of lb on the pod of its store, up to the DELETE it sends
DrainReconcileStarts(lb) ==
    /\ mu.pc = "drain_delete"
    /\ IsSome(mu.store[lb])
    /\ mu.request[lb] = NoDelete
    /\ LET step == drain_reconcile(mu.store[lb], lb, now) IN
       mu' = IF step.tag = "delete"
             THEN [mu EXCEPT !.request[lb] = [tag |-> "DELETE", params |-> step.request,
                                              snapshot |-> mu.store[lb]],
                             !.result[lb] = NotReconciled]
             ELSE [mu EXCEPT !.result[lb] = [tag |-> "Ok", requeue |-> step.after,
                                             deleted |-> FALSE]]
    /\ pod' = pod
    /\ DrainDeleteUnchanged

\* the API server answers the DELETE of lb with 404 for a pod that is gone
\* and 409 for preconditions that do not hold; otherwise the pod starts to
\* terminate, or is removed at once; delete_pod and error_policy then give
\* the requeue
DrainDeleteAnswered(lb) ==
    /\ mu.pc = "drain_delete"
    /\ mu.request[lb] # NoDelete
    /\ LET params == mu.request[lb].params
           response == IF ~IsSome(pod)
                       THEN ApiError(STATUS_CODE_404_NOT_FOUND, "NotFound", "")
                       ELSE IF ~PreconditionsHold(pod, params.preconditions)
                       THEN ApiError(STATUS_CODE_409_CONFLICT, "Conflict", "")
                       ELSE AnsweredOk
           takes_effect == response = AnsweredOk /\ ~params.dry_run
           done == [mu EXCEPT !.request[lb] = NoDelete,
                              !.effective = IF takes_effect THEN @ + 1 ELSE @]
       IN /\ mu' = IF response = AnsweredOk \/ is_404_not_found_error(response)
                   THEN [done EXCEPT !.result[lb] =
                            [tag |-> "Ok", requeue |-> Secs(DEFAULT_RECONCILE_DURATION),
                             deleted |-> takes_effect]]
                   ELSE [done EXCEPT !.result[lb] =
                            [tag |-> "Err", requeue |-> drain_error_policy(response),
                             deleted |-> FALSE]]
          /\ IF takes_effect
             THEN \/ pod' = NoPod
                  \/ pod' = [pod EXCEPT !.deletionTimestamp = TRUE, !.rv = pod.rv + 1]
             ELSE pod' = pod
    /\ DrainDeleteUnchanged

\* the kubelet is done with the terminating pod
DrainTerminated ==
    /\ mu.pc = "drain_delete"
    /\ IsSome(pod)
    /\ pod.deletionTimestamp
    /\ pod' = NoPod
    /\ mu' = mu
    /\ DrainDeleteUnchanged

DrainDeleteNext ==
    \/ DrainOtherWrite
    \/ DrainTerminated
    \/ \E lb \in Instances :
          \/ DrainStoreSync(lb)
          \/ DrainReconcileStarts(lb)
          \/ DrainDeleteAnswered(lb)

SpecDrainDelete == DrainDeleteInit /\ [][DrainDeleteNext]_vars

\* the DELETE of lb was evaluated on a snapshot that is not the stored pod
StaleDelete(lb) ==
    /\ mu.request[lb] # NoDelete
    /\ IsSome(pod)
    /\ \/ mu.request[lb].snapshot.uid # pod.uid
       \/ mu.request[lb].snapshot.rv # pod.rv

(***************************************************************************)
(* C34: every DELETE of the drain reconciler carries the uid and the       *)
(* resourceVersion of the snapshot it evaluated, whatever preconditions    *)
(* the delete-options annotation holds; a DELETE whose snapshot is no      *)
(* longer the stored pod leaves the pod as it is and the reconcile is      *)
(* requeued after 10 s; over all replicas at most one DELETE takes effect. *)
(***************************************************************************)
C34_DeleteOnOwnSnapshot ==
    [][/\ \A lb \in Instances :
            /\ mu'.request[lb] # NoDelete =>
                  mu'.request[lb].params.preconditions =
                      [uid |-> OkSome(mu'.request[lb].snapshot.uid),
                       resource_version |-> OkSome(mu'.request[lb].snapshot.rv)]
            /\ (StaleDelete(lb) /\ DrainDeleteAnswered(lb)) =>
                  /\ pod' = pod
                  /\ mu'.result[lb] = [tag |-> "Err",
                                       requeue |-> Secs(CONTROLLER_EXCLUSIVE_DURATION),
                                       deleted |-> FALSE]
       /\ mu'.effective <= 1]_vars

\* a replica's DELETE on a stale snapshot of a pod whose delete-options
\* annotation holds preconditions was refused, and the DELETE of the other
\* replica took effect
C34_Witness ==
    /\ mu.pc = "drain_delete"
    /\ \E lb \in Instances, other \in Instances :
          /\ lb # other
          /\ mu.result[lb].tag = "Err"
          /\ mu.result[lb].requeue = Secs(CONTROLLER_EXCLUSIVE_DURATION)
          /\ get_pod_delete_options(mu.store[lb]).tag = "Some"
          /\ "preconditions" \in DOMAIN get_pod_delete_options(mu.store[lb]).v
          /\ mu.result[other].tag = "Ok"
          /\ mu.result[other].deleted
    /\ mu.effective = 1

(***************************************************************************)
(* C35: a reconcile of the drain reconciler on a pod whose draining label  *)
(* is absent, Evicting or invalid, whose drain-timestamp is missing or     *)
(* does not parse, or whose deletionTimestamp is set, sends no DELETE,     *)
(* leaves the pod as it is and requeues after 3600 s.                      *)
(***************************************************************************)
NotForDrain(p) ==
    \/ DRAINING_LABEL_KEY \notin DOMAIN p.labels
    \/ p.labels[DRAINING_LABEL_KEY] # DRAINING_LABEL_VALUE__DRAINING
    \/ DRAIN_TIMESTAMP_ANNOTATION_KEY \notin DOMAIN p.annotations
    \/ "time" \notin DOMAIN p.annotations[DRAIN_TIMESTAMP_ANNOTATION_KEY]
    \/ p.deletionTimestamp

C35_NoDeleteUnlessDraining ==
    [][\A lb \in Instances :
          /\ (DrainReconcileStarts(lb) /\ NotForDrain(mu.store[lb])) =>
                /\ mu'.request[lb] = NoDelete
                /\ pod' = pod
                /\ mu'.result[lb] = [tag |-> "Ok",
                                     requeue |-> Secs(DEFAULT_RECONCILE_DURATION),
                                     deleted |-> FALSE]
          /\ mu'.request[lb] # NoDelete => ~NotForDrain(mu'.request[lb].snapshot)]_vars

\* both replicas have reconciled a pod that is not for the drain reconciler
\* after every wait, and it is stored as it was
C35_Witness ==
    /\ mu.pc = "drain_delete"
    /\ now = DrainDeleteNow
    /\ IsSome(pod)
    /\ NotForDrain(pod)
    /\ \A lb \in Instances :
          /\ mu.store[lb] = pod
          /\ mu.result[lb].tag = "Ok"
          /\ mu.result[lb].requeue = Secs(DEFAULT_RECONCILE_DURATION)
    /\ mu.effective = 0

(***************************************************************************)
(* src/controllers/evict.rs: the reconciles of the replicas on one         *)
(* Evicting pod while the clock runs, the answer of the decrementer taken  *)
(* as given, and the patch each reconcile ends with                        *)
(***************************************************************************)
MaxRetryAfterSecs == 2
MaxPatchTicks == 1

\* what decrease_pod_disruption_budget answers: Ok, or TooManyRequests with
\* retry_after_seconds from 0 up
RetryAnswers ==
    {[tag |-> "Ok", retry_after_seconds |-> 0]}
    \cup {[tag |-> "TooManyRequests", retry_after_seconds |-> s] : s \in {0, MaxRetryAfterSecs}}

\* the clock runs until every wait on the latest evict-after is over
EvictLaterHorizon ==
    Secs(2 * Max(MaxRetryAfterSecs, 1)
         + CONTROLLER_EXCLUSIVE_DURATION + CONTROLLER_TIMEOUT_JITTER)

\* the Evicting pods of the replica instance-id-1: the evict-after absent,
\* malformed, or valid
EvictLaterPods ==
    {MakePod("uid-1", 1, Label(DRAINING_LABEL_VALUE__EVICTING) @@ ("app" :> "test"),
             a @@ ControllerOne) :
        a \in {EmptyMap, EvictAfterRaw, EvictAfterValid}}

EvictLaterIdle == [pc |-> "idle"]

EvictLaterInit ==
    /\ now = 0
    /\ pod \in EvictLaterPods
    /\ calls = [c \in CallIds |-> CallIdle]
    /\ removed = NotRemoved
    /\ hook = HookIdle
    /\ NoEvicts
    /\ mu = [pc |-> "evict_later",
             reconcile |-> [lb \in Instances |-> EvictLaterIdle],
             returned |-> "none"]

EvictLaterUnchanged == UNCHANGED <<calls, removed, hook, pods, pdbs, stores, evicts, faults>>

\* the clock; a PATCH in flight is answered within MaxPatchTicks
EvictLaterTick ==
    /\ mu.pc = "evict_later"
    /\ now < EvictLaterHorizon
    /\ \A lb \in Instances :
          mu.reconcile[lb].pc = "evict_later" => now - mu.reconcile[lb].at < MaxPatchTicks
    /\ now' = now + 1
    /\ UNCHANGED <<pod, mu>>
    /\ EvictLaterUnchanged

\* reconcile of lb up to the patch it calls: the early returns, the backoff,
\* and the answer of decrease_pod_disruption_budget (while the model counts
\* the resourceVersions the patches make)
EvictLaterReconcile(lb) ==
    /\ mu.pc = "evict_later"
    /\ mu.reconcile[lb] = EvictLaterIdle
    /\ IsSome(pod)
    /\ pod.rv < MaxRv
    /\ IF \/ pod.deletionTimestamp
          \/ get_pod_draining_label_value(pod) # OkSome(Evicting)
          \/ EvictBackoff(pod, lb)
       THEN mu' = [mu EXCEPT !.returned = "requeue"]
       ELSE \E answer \in RetryAnswers :
               mu' = [mu EXCEPT !.returned = "none",
                                !.reconcile[lb] =
                   IF answer.tag = "Ok" THEN [pc |-> "drain"]
                   ELSE [pc |-> "evict_later", at |-> now,
                         retry_after_seconds |-> answer.retry_after_seconds,
                         evict_after |->
                             now + Secs(Max(answer.retry_after_seconds, 1))]]
    /\ UNCHANGED <<now, pod>>
    /\ EvictLaterUnchanged

\* reconcile after TooManyRequests: patch_to_evict_later returns, and
\* reconcile returns the requeue or the error
EvictLaterPatched(lb) ==
    /\ mu.pc = "evict_later"
    /\ mu.reconcile[lb].pc = "evict_later"
    /\ LET outcome == mutate_to_evict_later(pod, mu.reconcile[lb].evict_after, lb) IN
       /\ pod' = IF outcome.tag = "Err" THEN pod ELSE Patched(pod, outcome)
       /\ mu' = [mu EXCEPT !.reconcile[lb] = EvictLaterIdle,
                           !.returned = IF outcome.tag = "Err" THEN "error" ELSE "requeue"]
    /\ UNCHANGED now
    /\ EvictLaterUnchanged

\* reconcile after Ok(()): patch_to_drain as the controller
EvictLaterDrained(lb) ==
    /\ mu.pc = "evict_later"
    /\ mu.reconcile[lb].pc = "drain"
    /\ LET outcome == mutate_to_drain(pod, now, lb, FALSE) IN
       /\ pod' = IF outcome.tag = "Err" THEN pod ELSE Patched(pod, outcome)
       /\ mu' = [mu EXCEPT !.reconcile[lb] = EvictLaterIdle,
                           !.returned = IF outcome.tag = "Err" THEN "error" ELSE "requeue"]
    /\ UNCHANGED now
    /\ EvictLaterUnchanged

\* the API server does not answer the PATCH of either patch: reconcile
\* returns the error, nothing is written
EvictLaterPatchFails(lb) ==
    /\ mu.pc = "evict_later"
    /\ mu.reconcile[lb].pc \in {"drain", "evict_later"}
    /\ mu' = [mu EXCEPT !.reconcile[lb] = EvictLaterIdle, !.returned = "error"]
    /\ UNCHANGED <<now, pod>>
    /\ EvictLaterUnchanged

EvictLaterNext ==
    \/ EvictLaterTick
    \/ \E lb \in Instances :
          \/ EvictLaterReconcile(lb)
          \/ EvictLaterPatched(lb)
          \/ EvictLaterDrained(lb)
          \/ EvictLaterPatchFails(lb)

SpecEvictLater == EvictLaterInit /\ [][EvictLaterNext]_vars

\* the reconcile of lb asks the decrementer in this step
AttemptsDecrement(lb) ==
    /\ mu.reconcile[lb] = EvictLaterIdle
    /\ mu'.reconcile[lb] # EvictLaterIdle

\* the evict-after of the pod p, when it parses
StoredEvictAfter(p) == get_pod_evict_after(p).v
HasEvictAfter(p) == IsSome(p) /\ get_pod_evict_after(p).tag = "Some"

\* the patch of the reconcile of lb, asked for after TooManyRequests, is
\* written in this step
EvictLaterWritten(lb) ==
    /\ mu.reconcile[lb].pc = "evict_later"
    /\ mu'.reconcile[lb] = EvictLaterIdle
    /\ mu'.returned = "requeue"
    /\ get_pod_draining_label_value(pod) = OkSome(Evicting)

\* the instant reconcile asks patch_to_evict_later for
RequestedEvictAfter(lb) ==
    mu.reconcile[lb].at + Secs(Max(mu.reconcile[lb].retry_after_seconds, 1))

PatchedByDelete(p) ==
    /\ p.phase = "Running"
    /\ is_pod_exposed(p)
    /\ is_pod_ready(p)
    /\ \/ DRAINING_LABEL_KEY \notin DOMAIN p.labels
       \/ p.labels[DRAINING_LABEL_KEY] = DRAINING_LABEL_VALUE__EVICTING

\* handle_delete has run on the request of the hook, which carries a pod
DeleteHandled ==
    /\ hook.pc # "idle"
    /\ hook.endpoint = "delete"
    /\ hook.handle_called
    /\ hook.review.v.old_object.tag = "Some"

(***************************************************************************)
(* C37: the delete handler calls patch_to_drain, and so writes the pod,    *)
(* only for a request whose pod is Running, exposed and Ready with its     *)
(* draining label absent or Evicting; for every other pod (not Running,    *)
(* not exposed, not Ready, Draining with any drain-timestamp, or with an   *)
(* invalid label) no patch() call is made, the pod is not written by the   *)
(* program, and the request is allowed.                                    *)
(***************************************************************************)
C37_DeletePatchesOnlyServing ==
    [][/\ \A c \in CallIds :
            calls'[c] # CallIdle =>
                /\ hook'.pc # "idle"
                /\ hook'.endpoint = "delete"
                /\ hook'.lb = c
                /\ hook'.handle_called
                /\ PatchedByDelete(hook'.review.v.old_object.v)
       /\ (\E c \in CallIds : PatchApplied(c)) =>
                /\ DeleteHandled
                /\ PatchedByDelete(hook.review.v.old_object.v)
       /\ (DeleteHandled' /\ ~PatchedByDelete(hook'.review.v.old_object.v)) =>
                /\ hook'.pc \in {"stalling", "responded", "deleted"}
                /\ ~hook'.patched
                /\ hook'.pc # "stalling" => hook'.response = ReviewResponse(TRUE)
                /\ (IsSome(pod) /\ IsSome(pod')) =>
                      /\ pod'.labels = pod.labels
                      /\ pod'.annotations = pod.annotations]_vars

\* the handler has allowed the deletion of a pod that is not Ready, and of
\* none of its replicas a patch() call was made
C37_Witness ==
    /\ DeleteHandled
    /\ hook.pc = "responded"
    /\ ~is_pod_ready(hook.review.v.old_object.v)
    /\ is_pod_exposed(hook.review.v.old_object.v)
    /\ hook.response = ReviewResponse(TRUE)
    /\ pod = hook.review.v.old_object.v
    /\ \A c \in CallIds : calls[c] = CallIdle

(***************************************************************************)
(* Claims on a pod replaced during a patch() call (SpecConverge)           *)
(***************************************************************************)
\* the pod the call was made for is gone and a pod of the same name and
\* another uid is stored
Recreated == IsSome(pod) /\ pod.uid = "uid-2"

(***************************************************************************)
(* C38: when the pod is deleted and a pod of the same name and another uid *)
(* is created during a patch() call, the call never modifies the new pod;  *)
(* a call that sends a PATCH after that has it rejected, finds the other   *)
(* uid when it refreshes, drops its snapshot and returns Gone.  (A call    *)
(* that sends no request after that returns what it computed before.)      *)
(***************************************************************************)
C38_NewPodUntouched ==
    [][/\ Recreated => pod' = pod
       /\ (Recreated /\ mu.pc = "refresh") => mu'.last_known = NoPod
       /\ (Recreated' /\ mu'.pc = "returned" /\ mu'.since >= 1) =>
              mu'.result = DesiredState(OutcomeGone)]_vars

\* the pod was replaced while the PATCH was on its way; the call has
\* returned Gone and the new pod is as it was created
C38_Witness ==
    /\ mu.pc = "returned"
    /\ mu.since = 1
    /\ mu.result = DesiredState(OutcomeGone)
    /\ Recreated
    /\ pod = MakePod("uid-2", pod.rv, "app" :> "test", EmptyMap)

\* the claim as stated: the outcome of the call is Gone whenever the pod
\* was replaced during it
C38_ReplacedIsGone ==
    (mu.pc = "returned" /\ Recreated) => mu.result = DesiredState(OutcomeGone)

(***************************************************************************)
(* The stages with the tasks scheduled (SpecShutdownLive): the runtime     *)
(* polls a task that is ready, so the wrapper of a service whose task has  *)
(* ended goes on, and the task of new_with_drain_signal goes on once the   *)
(* drain stage is complete.                                                *)
(***************************************************************************)
ShutdownFairness ==
    /\ \A s \in Services : WF_vars(WrapperObserves(s))
    /\ WF_vars(SignalDrainComplete)

SpecShutdownLive == ShutdownInit /\ [][ShutdownNext]_vars /\ ShutdownFairness

\* the future of every service has returned or panicked
AllFinished == \A s \in Services : mu.svc[s].inner \in {"returned", "panicked"}

(***************************************************************************)
(* C39: wait_shutdown_complete resolves only when the future of every      *)
(* service started through spawn_service has returned or panicked (and its *)
(* wrapper has seen it), and once the shutdown stage is triggered and      *)
(* every such future has ended it does resolve.                            *)
(***************************************************************************)
C39_CompleteIffAllFinished ==
    /\ [](StageComplete(mu.shutdown) => (AllFinished /\ \A s \in Services : Exited(s)))
    /\ (mu.shutdown.triggered /\ AllFinished) ~> StageComplete(mu.shutdown)

\* the shutdown stage is complete after a termination signal: one service
\* panicked, the others returned
C39_Witness ==
    /\ mu.pc = "shutdown"
    /\ StageComplete(mu.shutdown)
    /\ mu.signal = "done"
    /\ mu.svc["controller"].exit = "Panic"
    /\ mu.svc["webhook"].inner = "returned"
    /\ mu.svc["certwatcher"].inner = "returned"

(***************************************************************************)
(* C40: whenever the closure of a patch_to_drain, patch_to_evict or        *)
(* patch_to_evict_later call returns RequirePatch(p), the snapshot it was  *)
(* called with exists and p differs from it, so that the patch built from  *)
(* the two is not empty; called without a snapshot it returns              *)
(* DesiredState(Gone); hence no such call returns the Bug error of         *)
(* try_patch, whatever other writers do to the pod meanwhile.              *)
(***************************************************************************)
C40_NoPatcherBug ==
    /\ mu.pc \in {"loop", "try_patch"} =>
          LET m == CallMutate(mu) IN
          /\ m.tag = "RequirePatch" =>
                /\ IsSome(mu.last_known)
                /\ m.pod # mu.last_known
                /\ build_patch(mu.last_known, m.pod) # << >>
          /\ ~IsSome(mu.last_known) => m = DesiredState(OutcomeGone)
    /\ mu.pc = "try_patch" => SendsPatch(mu)
    /\ mu.pc = "returned" => mu.result.tag # "Err"

\* a patch_to_evict_later call whose PATCH was overtaken has refreshed and
\* is about to send a PATCH built from the refreshed snapshot
C40_Witness ==
    /\ mu.pc = "try_patch"
    /\ mu.kind = "evict_later"
    /\ mu.writes >= 1
    /\ mu.since = 1
    /\ mu.last_known = pod
    /\ build_patch(mu.last_known, CallMutate(mu).pod) # << >>

====
